---- MODULE Spec2Model ----
(***************************************************************************)
(* Model of the VM provisioning and lifecycle engine of cloud-backend:     *)
(* K8sService.CreateUserVM / applyManifests / deleteResource (two-phase    *)
(* apply with deferred rollback), K8sService.StopVM / StartVM /            *)
(* waitForVMStatus / DeleteVM with VmService.UpdateVmStatus and DeleteVm,  *)
(* the lifecycle handlers of VirtualMachineController, the GetK8sService   *)
(* singleton and the port allocator of VmService.                          *)
(***************************************************************************)
EXTENDS Integers, Sequences, FiniteSets, TLC

(* ---------------------------------------------------------------------- *)
(* Bounds of the model                                                     *)
(* ---------------------------------------------------------------------- *)
\* number of documents in the client-init manifest directory
MaxInitDocs == 2
\* number of documents in the client-vm manifest directory
MaxVMDocs == 3
\* number of CreateUserVM calls made one after another in a behaviour
MaxCalls == 2
\* how far past the 60 second budget the model clock may run (in ticks)
MaxOverrun == 1
\* number of goroutines that call GetK8sService, and calls each one makes
MaxCallers == 2
MaxGetCalls == 2
\* number of callers that take a port from the allocator and persist a
\* record with it
MaxAllocCallers == 2

(* ---------------------------------------------------------------------- *)
(* Program constants                                                       *)
(* ---------------------------------------------------------------------- *)
MinPort == 30003
MaxPortExcl == 32767
MinPasswordLen == 8
MaxPasswordLen == 16
\* waitForVMStatus: ticker period and timeout, in seconds
TickSeconds == 5
TimeoutSeconds == 60
\* GetAvailablePort: first and last port of the scan
AllocMinPort == 30003
AllocMaxPort == 30300

NoErr == "nil"

(* ---------------------------------------------------------------------- *)
(* Strings are sequences of one-character strings                          *)
(* ---------------------------------------------------------------------- *)
LowerChars == {"a","b","c","d","e","f","g","h","i","j","k","l","m",
               "n","o","p","q","r","s","t","u","v","w","x","y","z"}
UpperChars == {"A","B","C","D","E","F","G","H","I","J","K","L","M",
               "N","O","P","Q","R","S","T","U","V","W","X","Y","Z"}
DigitChars == {"0","1","2","3","4","5","6","7","8","9"}
PunctChars == {"!","@","#","$","%","^","&","*","(",")","_","+","-","=",
               "[","]","{","}","|",";",":",",",".","<",">","/","?"}

\* strings.HasPrefix
HasPrefix(s, p) ==
    /\ Len(p) <= Len(s)
    /\ SubSeq(s, 1, Len(p)) = p

\* strings.Contains
Contains(s, sub) ==
    \E i \in 1..(Len(s) - Len(sub) + 1) : SubSeq(s, i, i + Len(sub) - 1) = sub

\* regexp ^[a-z0-9]([-a-z0-9]*[a-z0-9])?$
\* (faulty variant: ^[a-z0-9][-a-z0-9]*$, which lets a name end in a hyphen)
dns1123RegexOpenEnd(s) ==
    /\ Len(s) >= 1
    /\ s[1] \in LowerChars \cup DigitChars
    /\ \A i \in 1..Len(s) : s[i] \in LowerChars \cup DigitChars \cup {"-"}
dns1123Regex(s) ==
    /\ Len(s) >= 1
    /\ s[1] \in LowerChars \cup DigitChars
    /\ s[Len(s)] \in LowerChars \cup DigitChars
    /\ \A i \in 1..Len(s) : s[i] \in LowerChars \cup DigitChars \cup {"-"}

\* regexp ^[a-zA-Z0-9!@#$%^&*()_+\-=\[\]{}|;:,.<>/?]+$
passwordRegex(s) ==
    /\ Len(s) >= 1
    /\ \A i \in 1..Len(s) :
          s[i] \in LowerChars \cup UpperChars \cup DigitChars \cup PunctChars

\* regexp ^[a-zA-Z0-9.-]+$
domainRegex(s) ==
    /\ Len(s) >= 1
    /\ \A i \in 1..Len(s) :
          s[i] \in LowerChars \cup UpperChars \cup DigitChars \cup {".", "-"}

(* path/filepath.Clean on a slash separated path *)
RECURSIVE SplitSlash(_, _, _)
\* segments of s between "/" characters; cur is the segment being read
SplitSlash(s, i, cur) ==
    IF i > Len(s) THEN <<cur>>
    ELSE IF s[i] = "/" THEN <<cur>> \o SplitSlash(s, i + 1, <<>>)
    ELSE SplitSlash(s, i + 1, Append(cur, s[i]))

RECURSIVE CleanSegs(_, _, _, _)
\* out is the stack of segments kept so far
CleanSegs(segs, i, out, rooted) ==
    IF i > Len(segs) THEN out
    ELSE IF segs[i] = <<>> \/ segs[i] = <<".">> THEN
        CleanSegs(segs, i + 1, out, rooted)
    ELSE IF segs[i] = <<".", ".">> THEN
        IF Len(out) > 0 /\ out[Len(out)] # <<".", ".">> THEN
            CleanSegs(segs, i + 1, SubSeq(out, 1, Len(out) - 1), rooted)
        ELSE IF rooted THEN
            CleanSegs(segs, i + 1, out, rooted)
        ELSE
            CleanSegs(segs, i + 1, Append(out, segs[i]), rooted)
    ELSE CleanSegs(segs, i + 1, Append(out, segs[i]), rooted)

RECURSIVE JoinSlash(_, _)
JoinSlash(segs, i) ==
    IF i > Len(segs) THEN <<>>
    ELSE IF i = Len(segs) THEN segs[i]
    ELSE segs[i] \o <<"/">> \o JoinSlash(segs, i + 1)

Clean(path) ==
    LET rooted == Len(path) >= 1 /\ path[1] = "/"
        kept   == CleanSegs(SplitSlash(path, 1, <<>>), 1, <<>>, rooted)
        body   == JoinSlash(kept, 1)
    IN  IF rooted THEN <<"/">> \o body
        ELSE IF body = <<>> THEN <<".">>
        ELSE body

(* ---------------------------------------------------------------------- *)
(* K8sService.checkInjection: NoErr or the error of the first failed check *)
(* ---------------------------------------------------------------------- *)
\* "!(30003 <= vmPort && vmPort < 32767)" is the rejection
\* (faulty variants: the upper limit is accepted; the lower limit is refused)
PortInRangeInclusive(vmPort) == MinPort <= vmPort /\ vmPort <= MaxPortExcl
PortInRangeAboveMin(vmPort) == MinPort < vmPort /\ vmPort < MaxPortExcl
PortInRange(vmPort) == MinPort <= vmPort /\ vmPort < MaxPortExcl

\* "len(password) < 8 || len(password) > 16" is the rejection
\* (faulty variant: the length the comment in the source describes, {8,})
PasswordLengthOkNoMax(password) == Len(password) >= MinPasswordLen
PasswordLengthOk(password) ==
    ~(Len(password) < MinPasswordLen \/ Len(password) > MaxPasswordLen)

\* (faulty variant: the characters of the password are checked before its
\* length)
checkInjectionCharsetFirst(userNamespace, vmName, password, dnsHost, manifestDir, vmPort) ==
    IF \/ userNamespace = <<>> \/ vmName = <<>> \/ password = <<>>
       \/ dnsHost = <<>> \/ manifestDir = <<>> \/ vmPort = 0
    THEN "invalid parameters: empty values not allowed"
    ELSE IF ~PortInRange(vmPort)
    THEN "invalid port"
    ELSE IF ~dns1123Regex(userNamespace)
    THEN "invalid namespace format"
    ELSE IF ~dns1123Regex(vmName)
    THEN "invalid vmName format"
    ELSE IF ~passwordRegex(password)
    THEN "invalid password format"
    ELSE IF ~PasswordLengthOk(password)
    THEN "invalid password: length"
    ELSE IF ~domainRegex(dnsHost)
    THEN "invalid dnsHost format"
    ELSE IF LET cleanDir == Clean(manifestDir)
            IN  \/ Contains(cleanDir, <<".", ".">>)
                \/ HasPrefix(cleanDir, <<"/">>)
                \/ HasPrefix(cleanDir, <<"\\">>)
    THEN "invalid manifest directory"
    ELSE NoErr
checkInjection(userNamespace, vmName, password, dnsHost, manifestDir, vmPort) ==
    IF \/ userNamespace = <<>> \/ vmName = <<>> \/ password = <<>>
       \/ dnsHost = <<>> \/ manifestDir = <<>> \/ vmPort = 0
    THEN "invalid parameters: empty values not allowed"
    ELSE IF ~PortInRange(vmPort)
    THEN "invalid port"
    ELSE IF ~dns1123Regex(userNamespace)
    THEN "invalid namespace format"
    ELSE IF ~dns1123Regex(vmName)
    THEN "invalid vmName format"
    ELSE IF ~PasswordLengthOk(password)
    THEN "invalid password: length"
    ELSE IF ~passwordRegex(password)
    THEN "invalid password format"
    ELSE IF ~domainRegex(dnsHost)
    THEN "invalid dnsHost format"
    ELSE IF LET cleanDir == Clean(manifestDir)
            IN  \/ Contains(cleanDir, <<".", ".">>)
                \/ HasPrefix(cleanDir, <<"/">>)
                \/ HasPrefix(cleanDir, <<"\\">>)
    THEN "invalid manifest directory"
    ELSE NoErr

(* ---------------------------------------------------------------------- *)
(* State                                                                   *)
(* ---------------------------------------------------------------------- *)
VARIABLES
    \* manifest directories on disk: the shape of every document
    initDocs, vmDocs,
    \* resources present in the cluster
    cluster,
    \* CreateUserVM: position, arguments, locals and results
    pc, calls, params, success, allCreatedResources, initCreated, vmCreated,
    vmInfo, retErr, rollbackIdx,
    \* the running applyManifests: phase locals and position
    idx, am,
    \* observation of the run: creates that succeeded in this call, creates
    \* of this call that were answered "already exists", the
    \* deleteResource calls of its rollback, the cluster when the running
    \* applyManifests started, whether the environment injected a failure
    \* into it, and the same applyManifests run with the other ignoreExists
    callCreated, callSkipped, deleteLog, clusterAtStart, faulted, twin,
    \* the persisted VirtualMachine record and the cluster's VirtualMachine
    \* object (spec.running, status.printableStatus)
    vmRec, vmObj,
    \* StopVM: position and returned error
    lpc, lErr,
    \* waitForVMStatus: the status waited for, the time since the wait
    \* started (in ticker periods), a tick waiting in ticker.C, and the
    \* timeout channel being ready
    desiredStatus, now, tickPending, timeoutReady,
    \* observation of the run: UpdateVmStatus calls that returned nil, the
    \* patch having been issued, the polls made, a poll having matched, a
    \* poll's Get having failed
    statusWrites, patchIssued, polls, observed, getFailed,
    \* the *VirtualMachine the operation was called with (the record as the
    \* caller read it), and the status.printableStatus values the polls read
    vmArg, seen,
    \* DeleteVM: position, returned error, the deleteResource calls made
    \* (object and outcome, in order), and the objects of the VM present in
    \* the cluster
    dpc, dErr, delAttempts, vmResources,
    \* a lifecycle handler of the controller: position, the request it
    \* serves (operation and authenticated user), the HTTP response written
    hpc, request, response,
    \* GetK8sService: the package variables once and instance, the number of
    \* times the body given to once.Do has started, and per calling
    \* goroutine its position, its local err, the calls it has made; the
    \* results returned so far, in order
    once, instance, constructions, gpc, gErr, gCalls, gLog,
    \* the virtual_machines table (name, node_port and is_deleted of every
    \* row) and the number of writes made to it; per caller of the
    \* allocator its position, the result GetAvailablePort returned to it
    \* and the number of table writes made before that call; the last
    \* IsPortAvailable call and its result
    vms, version, apc, aRet, scanAt, probe,
    \* a call of checkInjection: its arguments, whether it has returned, and
    \* the error it returned
    injArgs, injDone, injErr,
    \* applyManifests on the text of one file: the file's name and content,
    \* the replacements map, the text being built, the keys the range loop
    \* has still to visit, the blocks after the split, the index of the
    \* next block, the position, the indices of the blocks a create call
    \* was issued for, and the error returned
    fileName, content, replacements, text, pending, docs, docAt, mpc,
    applied, mErr,
    \* another CreateUserVM call for the same namespace and another VM name,
    \* running beside the first: its position, the index of its next
    \* document or ledger entry, and its applyManifests run
    peer,
    \* a StartVM for the same VM running in its own goroutine beside the
    \* operation above: its position, its error, and the clock and the
    \* pending tick of its waitForVMStatus
    rival

pvars == <<initDocs, vmDocs, cluster, pc, calls, params, success,
           allCreatedResources, initCreated, vmCreated, vmInfo, retErr,
           rollbackIdx, idx, am, callCreated, callSkipped, deleteLog, clusterAtStart,
           faulted, twin>>

lvars == <<vmRec, vmObj, lpc, lErr, desiredStatus, now, tickPending,
           timeoutReady, statusWrites, patchIssued, polls, observed,
           getFailed, vmArg, seen>>

dvars == <<dpc, dErr, delAttempts, vmResources>>

\* what the provisioning steps leave alone, what the steps of StopVM,
\* StartVM and waitForVMStatus leave alone, and what the steps of DeleteVM
\* leave alone beside the record
hvars == <<hpc, request, response>>
ovars == <<once, instance, constructions, gpc, gErr, gCalls, gLog>>

avars == <<vms, version, apc, aRet, scanAt, probe>>

\* the calls of the functions that touch nothing outside themselves
mvars == <<fileName, content, replacements, text, pending, docs, docAt,
           mpc, applied, mErr>>
fvars == <<injArgs, injDone, injErr, mvars>>

\* the operations that run beside the ones above
cvars == <<peer, rival>>

\* the state outside the engine of one VM
outsideVM == <<ovars, avars, fvars, cvars>>

outsideProvisioning == <<lvars, dvars, hvars, outsideVM>>
outsideLifecycle == <<pvars, dvars, hvars, outsideVM>>
outsideDelete ==
    <<pvars, hvars, outsideVM, vmObj, lpc, lErr, desiredStatus, now, tickPending, timeoutReady,
      statusWrites, patchIssued, polls, observed, getFailed, vmArg, seen>>

vars == <<pvars, lvars, dvars, hvars, ovars, avars, fvars, cvars>>

(* ---------------------------------------------------------------------- *)
(* Inputs                                                                  *)
(* ---------------------------------------------------------------------- *)
\* a document decodes and maps ("ok"), does not decode ("bad"), or its kind
\* has no REST mapping ("nomap")
Shapes == {"ok", "bad", "nomap"}

\* the resource a document of a manifest directory describes
Res(dir, i) == <<dir, i>>

AllResources ==
    {Res("client-init", i) : i \in 1..MaxInitDocs}
        \cup {Res("client-vm", i) : i \in 1..MaxVMDocs}

ValidParams ==
    [Namespace |-> <<"n","s","-","1">>, Name |-> <<"v","m","1">>,
     Password |-> <<"P","a","s","s","w","0","r","d">>,
     DNSHost |-> <<"a",".","i","o">>,
     ManifestDir |-> <<"y","d","/","c","l","i","e","n","t","-","v","m">>,
     Port |-> 30003]

ParamCases ==
    { ValidParams,
      [ValidParams EXCEPT !.Port = 30002],
      [ValidParams EXCEPT !.Namespace = <<"-","a">>],
      [ValidParams EXCEPT !.ManifestDir = <<".",".","/","x">>] }

\* a nil *VMInfo and a nil error returned by CreateUserVM
Nil == [nil |-> TRUE]
Error(wrap, cause) == [wrap |-> wrap, cause |-> cause]
NoError == Error(NoErr, NoErr)
EmptyRun == [created |-> <<>>, err |-> NoErr, calls |-> <<>>]

(* ---------------------------------------------------------------------- *)
(* The cluster API                                                         *)
(* ---------------------------------------------------------------------- *)
\* dri.Create: the API answers from its state unless the call itself fails
CreateResponse(res, objs, fault) ==
    IF fault THEN "error"
    ELSE IF res \in objs THEN "already exists"
    ELSE "created"

\* deleteResource: mapping lookup, then dri.Delete with background propagation
DeleteResponse(res, objs, fault) ==
    IF fault THEN "failed"
    ELSE IF res \in objs THEN "deleted"
    ELSE "not found"

(* ---------------------------------------------------------------------- *)
(* applyManifests, one document                                            *)
(* ---------------------------------------------------------------------- *)
\* Faulty variants of ApplyDoc: one that puts an already existing object on
\* the ledger, one that fails on "already exists" when ignoreExists is false,
\* and one that goes on after a create error.
ApplyDocTracksExisting(st, shape, res, resp, ignoreExists) ==
    IF st.err # NoErr THEN st
    ELSE IF shape = "bad" THEN [st EXCEPT !.err = "failed to decode yaml"]
    ELSE IF shape = "nomap" THEN [st EXCEPT !.err = "failed to find mapping"]
    ELSE LET issued == [st EXCEPT !.calls =
                                  Append(@, [res |-> res, resp |-> resp])]
         IN  IF resp = "created" \/ resp = "already exists"
             THEN [issued EXCEPT !.created = Append(@, res)]
             ELSE [issued EXCEPT !.err = "failed to create resource"]

ApplyDocStrict(st, shape, res, resp, ignoreExists) ==
    IF st.err # NoErr THEN st
    ELSE IF shape = "bad" THEN [st EXCEPT !.err = "failed to decode yaml"]
    ELSE IF shape = "nomap" THEN [st EXCEPT !.err = "failed to find mapping"]
    ELSE LET issued == [st EXCEPT !.calls =
                                  Append(@, [res |-> res, resp |-> resp])]
         IN  IF resp = "created"
             THEN [issued EXCEPT !.created = Append(@, res)]
             ELSE IF resp = "already exists" /\ ignoreExists
             THEN issued
             ELSE [issued EXCEPT !.err = "failed to create resource"]

ApplyDocContinuesOnError(st, shape, res, resp, ignoreExists) ==
    IF st.err # NoErr THEN st
    ELSE IF shape = "bad" THEN [st EXCEPT !.err = "failed to decode yaml"]
    ELSE IF shape = "nomap" THEN [st EXCEPT !.err = "failed to find mapping"]
    ELSE LET issued == [st EXCEPT !.calls =
                                  Append(@, [res |-> res, resp |-> resp])]
         IN  IF resp = "created"
             THEN [issued EXCEPT !.created = Append(@, res)]
             ELSE issued

\* (faulty variant: a document whose kind has no mapping is passed over)
ApplyDocSkipsUnmapped(st, shape, res, resp, ignoreExists) ==
    IF st.err # NoErr THEN st
    ELSE IF shape = "bad" THEN [st EXCEPT !.err = "failed to decode yaml"]
    ELSE IF shape = "nomap" THEN st
    ELSE LET issued == [st EXCEPT !.calls =
                                  Append(@, [res |-> res, resp |-> resp])]
         IN  IF resp = "created"
             THEN [issued EXCEPT !.created = Append(@, res)]
             ELSE IF resp = "already exists"
             THEN issued
             ELSE [issued EXCEPT !.err = "failed to create resource"]

\* st is the run so far: the created ledger, the error it returned (if any)
\* and the create calls it issued with the answer to each
ApplyDoc(st, shape, res, resp, ignoreExists) ==
    IF st.err # NoErr THEN st
    ELSE IF shape = "bad" THEN [st EXCEPT !.err = "failed to decode yaml"]
    ELSE IF shape = "nomap" THEN [st EXCEPT !.err = "failed to find mapping"]
    ELSE LET issued == [st EXCEPT !.calls =
                                  Append(@, [res |-> res, resp |-> resp])]
         IN  IF resp = "created"
             THEN [issued EXCEPT !.created = Append(@, res)]
             ELSE IF resp = "already exists"
             THEN IF ignoreExists THEN issued ELSE issued
             ELSE [issued EXCEPT !.err = "failed to create resource"]

IgnoreExists(phase) == phase = "init"

DocsOf(phase) == IF phase = "init" THEN initDocs ELSE vmDocs
DirOf(phase) == IF phase = "init" THEN "client-init" ELSE "client-vm"

(* ---------------------------------------------------------------------- *)
(* Initial state                                                           *)
(* ---------------------------------------------------------------------- *)
\* checkInjection has not been called
InjectionIdle ==
    /\ injArgs = ValidParams
    /\ injDone = FALSE
    /\ injErr = NoErr

\* CreateUserVM has not been called
CreateUserVMIdle ==
    /\ pc = "idle"
    /\ calls = 0
    /\ params = ValidParams
    /\ success = FALSE
    /\ allCreatedResources = <<>>
    /\ initCreated = <<>>
    /\ vmCreated = <<>>
    /\ vmInfo = Nil
    /\ retErr = NoError
    /\ rollbackIdx = 0
    /\ idx = 0
    /\ am = EmptyRun
    /\ callCreated = <<>>
    /\ callSkipped = <<>>
    /\ deleteLog = <<>>
    /\ clusterAtStart = cluster
    /\ faulted = FALSE
    /\ twin = EmptyRun

\* an error of applyManifests with the file it names
FileError(msg, file) == [msg |-> msg, file |-> file]

\* applyManifests has not read a file
ManifestIdle ==
    /\ fileName = ""
    /\ content = <<>>
    /\ replacements = <<>>
    /\ text = <<>>
    /\ pending = {}
    /\ docs = <<>>
    /\ docAt = 0
    /\ mpc = "none"
    /\ applied = <<>>
    /\ mErr = FileError(NoErr, "")

\* no other CreateUserVM and no other StartVM has been started
NoPeer == [pc |-> "none", idx |-> 0, am |-> EmptyRun]
NoRival == [pc |-> "none", err |-> NoError, now |-> 0, tickPending |-> FALSE]
ConcurrentIdle ==
    /\ peer = NoPeer
    /\ rival = NoRival

ProvisionIdle ==
    /\ CreateUserVMIdle
    /\ InjectionIdle
    /\ ManifestIdle
    /\ ConcurrentIdle

\* models.EnumVmStatus
VmStatusProvisioning == "Provisioning"
VmStatusFailed == "Failed"
VmStatusRunning == "Running"
VmStatusStopping == "Stopping"
VmStatusStopped == "Stopped"
VmStatusDeleted == "Deleted"
EnumVmStatus == {VmStatusProvisioning, VmStatusFailed, VmStatusRunning,
                 VmStatusStopping, VmStatusStopped, VmStatusDeleted}

\* status.printableStatus of the cluster object; Absent when the field is
\* missing
Absent == "<absent>"
PrintableStatuses == {"Running", "Stopping", "Stopped", "stopped"}

\* waitForVMStatus: the timeout in ticker periods
TimeoutTicks == TimeoutSeconds \div TickSeconds

\* the objects DeleteVM deletes, in the order of its deleteResource calls
\* (kind and name; the name is built around vm.Name)
\* (faulty variant: the VM object goes first)
DeleteOrderVMFirst ==
    <<"VirtualMachine/<name>", "Service/vps-access-<name>",
      "Ingress/vm-ingress-<name>", "Secret/<name>-cloud-init-userdata",
      "DataVolume/<name>-disk", "Service/vps-web-<name>">>
DeleteOrder ==
    <<"Service/vps-access-<name>", "Ingress/vm-ingress-<name>",
      "VirtualMachine/<name>", "Secret/<name>-cloud-init-userdata",
      "DataVolume/<name>-disk", "Service/vps-web-<name>">>

\* no DeleteVM has been dispatched; the objects of the VM are in the cluster
DeleteIdle ==
    /\ dpc = "none"
    /\ dErr = NoError
    /\ delAttempts = <<>>
    /\ vmResources = {DeleteOrder[i] : i \in DOMAIN DeleteOrder}

\* nothing of StopVM / StartVM has run
LifecycleFresh ==
    /\ lErr = NoError
    /\ desiredStatus = ""
    /\ now = 0
    /\ tickPending = FALSE
    /\ timeoutReady = FALSE
    /\ statusWrites = <<>>
    /\ patchIssued = FALSE
    /\ polls = 0
    /\ observed = FALSE
    /\ getFailed = FALSE
    /\ seen = {}

\* the goroutines that call GetK8sService
Callers == 1..MaxCallers

\* the process has started: no GetK8sService call has been made
OnceIdle ==
    /\ once = "fresh"
    /\ instance = Nil
    /\ constructions = 0
    /\ gpc = [c \in Callers |-> "idle"]
    /\ gErr = [c \in Callers |-> NoErr]
    /\ gCalls = [c \in Callers |-> 0]
    /\ gLog = <<>>

\* the callers of the allocator
AllocCallers == 1..MaxAllocCallers

\* a result of GetAvailablePort, and one of IsPortAvailable
PortResult(port, err) == [port |-> port, err |-> err]
ProbeResult(port, avail, err) == [port |-> port, avail |-> avail, err |-> err]

\* nothing has called the allocator
AllocCallersIdle ==
    /\ version = 0
    /\ apc = [a \in AllocCallers |-> "idle"]
    /\ aRet = [a \in AllocCallers |-> PortResult(0, NoErr)]
    /\ scanAt = [a \in AllocCallers |-> 0]
    /\ probe = ProbeResult(0, FALSE, NoErr)

\* an empty table
AllocIdle ==
    /\ vms = {}
    /\ AllocCallersIdle

\* no request is being served
NoRequest == [op |-> "", user |-> ""]
NoResponse == [code |-> 0, vm |-> Nil]
HandlerIdle ==
    /\ hpc = "none"
    /\ request = NoRequest
    /\ response = NoResponse

\* StopVM has been called with the record and has not taken a step
LifecycleIdle ==
    /\ lpc = "idle"
    /\ vmArg = vmRec
    /\ LifecycleFresh
    /\ HandlerIdle

Init ==
    /\ initDocs \in [1..MaxInitDocs -> Shapes]
    /\ vmDocs \in [1..MaxVMDocs -> Shapes]
    /\ cluster = {}
    /\ ProvisionIdle
    /\ OnceIdle
    /\ AllocIdle
    /\ vmRec = [Status |-> VmStatusProvisioning, IsDeleted |-> FALSE]
    /\ vmObj = [running |-> TRUE, printableStatus |-> Absent]
    /\ LifecycleIdle
    /\ DeleteIdle

(* ---------------------------------------------------------------------- *)
(* CreateUserVM                                                            *)
(* ---------------------------------------------------------------------- *)
\* "if err := s.checkInjection(...); err != nil { return nil, err }"
\* (faulty variant: the result of the check is ignored)
ReturnsOnInjectionNever(err) == FALSE
ReturnsOnInjection(err) == err # NoErr

\* entry: checkInjection, then the locals and the start of the bootstrap phase
CreateUserVM(p) ==
    /\ pc \in {"idle", "done"}
    /\ calls < MaxCalls
    /\ calls' = calls + 1
    /\ params' = p
    /\ success' = FALSE
    /\ allCreatedResources' = <<>>
    /\ initCreated' = <<>>
    /\ vmCreated' = <<>>
    /\ rollbackIdx' = 0
    /\ idx' = 0
    /\ am' = EmptyRun
    /\ twin' = EmptyRun
    /\ callCreated' = <<>>
    /\ callSkipped' = <<>>
    /\ deleteLog' = <<>>
    /\ clusterAtStart' = cluster
    /\ faulted' = FALSE
    /\ LET err == checkInjection(p.Namespace, p.Name, p.Password, p.DNSHost,
                                 p.ManifestDir, p.Port)
       IN  IF ReturnsOnInjection(err)
           THEN /\ pc' = "done"
                /\ vmInfo' = Nil
                /\ retErr' = Error(NoErr, err)
           ELSE /\ pc' = "init"
                /\ vmInfo' = [Namespace |-> p.Namespace, Name |-> p.Name,
                              Port |-> p.Port, Password |-> p.Password,
                              DNSHost |-> p.DNSHost, CreatedResources |-> <<>>]
                /\ retErr' = NoError
    /\ UNCHANGED <<initDocs, vmDocs, cluster, outsideProvisioning>>

\* applyManifests: os.ReadDir of the phase's directory
ApplyReadDir(ok) ==
    /\ pc \in {"init", "vm"}
    /\ idx = 0
    /\ am.err = NoErr
    /\ IF ok
       THEN /\ idx' = 1
            /\ UNCHANGED <<am, twin, faulted>>
       ELSE /\ am' = [am EXCEPT !.err = "failed to read directory"]
            /\ twin' = [twin EXCEPT !.err = "failed to read directory"]
            /\ faulted' = TRUE
            /\ UNCHANGED idx
    /\ UNCHANGED <<initDocs, vmDocs, cluster, pc, calls, params, success,
                   allCreatedResources, initCreated, vmCreated, vmInfo,
                   retErr, rollbackIdx, callCreated, callSkipped, deleteLog, clusterAtStart,
                   outsideProvisioning>>

\* applyManifests: decode, map and create the next document
ApplyNextDoc(fault) ==
    /\ pc \in {"init", "vm"}
    /\ idx >= 1
    /\ idx <= Len(DocsOf(pc))
    /\ am.err = NoErr
    /\ LET shape == DocsOf(pc)[idx]
           res   == Res(DirOf(pc), idx)
           resp  == CreateResponse(res, cluster, fault)
           next  == ApplyDoc(am, shape, res, resp, IgnoreExists(pc))
           sent  == Len(next.calls) > Len(am.calls)
       IN  /\ am' = next
           /\ twin' = ApplyDoc(twin, shape, res, resp, ~IgnoreExists(pc))
           /\ cluster' = IF sent /\ resp = "created"
                         THEN cluster \cup {res} ELSE cluster
           /\ callCreated' = IF sent /\ resp = "created"
                             THEN Append(callCreated, res) ELSE callCreated
           /\ callSkipped' = IF sent /\ resp = "already exists"
                             THEN Append(callSkipped, res) ELSE callSkipped
           /\ faulted' = (faulted \/ (sent /\ fault))
    /\ idx' = idx + 1
    /\ UNCHANGED <<initDocs, vmDocs, pc, calls, params, success,
                   allCreatedResources, initCreated, vmCreated, vmInfo,
                   retErr, rollbackIdx, deleteLog, clusterAtStart,
                   outsideProvisioning>>

\* the applyManifests call has returned: an error, or the end of the directory
ApplyReturned ==
    IF am.err # NoErr THEN TRUE ELSE idx > Len(DocsOf(pc))

\* the deferred function of CreateUserVM starts when the call returns an error
StartRollback(ledger) ==
    /\ rollbackIdx' = Len(ledger)
    /\ pc' = IF Len(ledger) = 0 THEN "done" ELSE "rollback"
    /\ vmInfo' = Nil

\* CreateUserVM after the bootstrap phase returned
AfterInit ==
    /\ pc = "init"
    /\ ApplyReturned
    /\ initCreated' = am.created
    /\ IF am.err # NoErr
       THEN /\ retErr' = Error("failed to apply client-init manifests", am.err)
            /\ StartRollback(allCreatedResources)
            /\ UNCHANGED <<allCreatedResources, idx, am, twin, clusterAtStart,
                           faulted>>
       ELSE /\ allCreatedResources' = allCreatedResources \o am.created
            /\ pc' = "vm"
            /\ idx' = 0
            /\ am' = EmptyRun
            /\ twin' = EmptyRun
            /\ clusterAtStart' = cluster
            /\ faulted' = FALSE
            /\ UNCHANGED <<retErr, rollbackIdx, vmInfo>>
    /\ UNCHANGED <<initDocs, vmDocs, cluster, calls, params, success,
                   vmCreated, callCreated, callSkipped, deleteLog,
                   outsideProvisioning>>

\* "vmInfo.CreatedResources = vmCreated"
\* (faulty variant: the bootstrap ledger is surfaced too)
ResultLedgerCombined(initLedger, vmLedger) == initLedger \o vmLedger
ResultLedger(initLedger, vmLedger) == vmLedger

\* CreateUserVM after the VM phase returned
AfterVM ==
    /\ pc = "vm"
    /\ ApplyReturned
    /\ vmCreated' = am.created
    /\ IF am.err # NoErr
       THEN /\ retErr' = Error("failed to apply client-vm manifests", am.err)
            /\ StartRollback(allCreatedResources)
            /\ UNCHANGED <<allCreatedResources, success>>
       ELSE /\ allCreatedResources' = allCreatedResources \o am.created
            /\ success' = TRUE
            /\ vmInfo' = [vmInfo EXCEPT !.CreatedResources =
                                     ResultLedger(initCreated, am.created)]
            /\ pc' = "done"
            /\ UNCHANGED <<retErr, rollbackIdx>>
    /\ UNCHANGED <<initDocs, vmDocs, cluster, calls, params, initCreated,
                   idx, am, twin, callCreated, callSkipped, deleteLog, clusterAtStart,
                   faulted,
                   outsideProvisioning>>

\* "for i := len(allCreatedResources) - 1; i >= 0; i--": the error of
\* deleteResource is printed and the loop goes on
\* (faulty variant: the loop ends at the first failed delete)
RollbackNextStopOnError(i, out) == IF out = "deleted" THEN i - 1 ELSE 0
RollbackNext(i, out) == i - 1

\* one iteration of the deferred rollback loop: deleteResource on the entry
Rollback(fault) ==
    /\ pc = "rollback"
    /\ ~success
    /\ rollbackIdx >= 1
    /\ LET res == allCreatedResources[rollbackIdx]
           out == DeleteResponse(res, cluster, fault)
       IN  /\ deleteLog' = Append(deleteLog, [res |-> res, out |-> out])
           /\ cluster' = IF out = "deleted" THEN cluster \ {res} ELSE cluster
    /\ LET res == allCreatedResources[rollbackIdx]
           out == DeleteResponse(res, cluster, fault)
       IN  /\ rollbackIdx' = RollbackNext(rollbackIdx, out)
           /\ pc' = IF RollbackNext(rollbackIdx, out) = 0
                    THEN "done" ELSE "rollback"
    /\ UNCHANGED <<initDocs, vmDocs, calls, params, success,
                   allCreatedResources, initCreated, vmCreated, vmInfo,
                   retErr, idx, am, callCreated, callSkipped, clusterAtStart, faulted,
                   twin,
                   outsideProvisioning>>

(* ---------------------------------------------------------------------- *)
(* VmService.UpdateVmStatus: UPDATE ... WHERE name = ? AND is_deleted=false *)
(* ---------------------------------------------------------------------- *)
\* (faulty variant: the update is lost)
UpdateVmStatusDropped(rec, status) == rec
\* (faulty variant: the update does not look at is_deleted)
UpdateVmStatusAnyRecord(rec, status) == [rec EXCEPT !.Status = status]
UpdateVmStatus(rec, status) ==
    IF rec.IsDeleted THEN rec ELSE [rec EXCEPT !.Status = status]

\* strings.ToLower on the status words
ToLower(s) ==
    CASE s = "Running" -> "running"
      [] s = "Stopping" -> "stopping"
      [] s = "Stopped" -> "stopped"
      [] OTHER -> s

\* strings.EqualFold
EqualFold(a, b) == ToLower(a) = ToLower(b)

(* ---------------------------------------------------------------------- *)
(* StopVM                                                                  *)
(* ---------------------------------------------------------------------- *)
\* "if err := ...UpdateVmStatus(vm.Name, Stopping); err != nil { return ... }"
\* (faulty variant: StopVM goes on after a failed write)
ReturnsOnUpdateErrorNever(dbOk) == FALSE
ReturnsOnUpdateError(dbOk) == ~dbOk

\* "return fmt.Errorf(...)": the operation ends where it failed; nothing
\* calls it again.  entry is the position at which the operation starts
\* (faulty variant: the operation is started over)
AfterErrorRetry(entry) == entry
AfterError(entry) == "done"

\* the entry position of the operation a wait belongs to
EntryOf(desired) == IF desired = "Stopped" THEN "idle" ELSE "start"

\* step 1: UpdateVmStatus(vm.Name, Stopping)
StopVMPersistStopping(dbOk) ==
    /\ lpc = "idle"
    /\ vmRec' = IF dbOk THEN UpdateVmStatus(vmRec, VmStatusStopping)
                ELSE vmRec
    /\ statusWrites' = IF dbOk THEN Append(statusWrites, VmStatusStopping)
                       ELSE statusWrites
    /\ IF ReturnsOnUpdateError(dbOk)
       THEN /\ lErr' = Error("failed to update VM status to Stopping", "db")
            /\ lpc' = "done"
       ELSE /\ lpc' = "patch"
            /\ UNCHANGED lErr
    /\ UNCHANGED <<outsideLifecycle, vmArg, seen, vmObj, desiredStatus, now,
                   tickPending, timeoutReady, patchIssued, polls, observed,
                   getFailed>>

\* step 2: merge patch {"spec":{"running":false}}, then the wait starts
StopVMPatch(ok) ==
    /\ lpc = "patch"
    /\ patchIssued' = TRUE
    /\ IF ok
       THEN /\ vmObj' = [vmObj EXCEPT !.running = FALSE]
            /\ lpc' = "wait"
            /\ desiredStatus' = "Stopped"
            /\ now' = 0
            /\ tickPending' = FALSE
            /\ timeoutReady' = FALSE
            /\ UNCHANGED lErr
       ELSE /\ lErr' = Error("failed to patch VM running state", "api")
            /\ lpc' = AfterError("idle")
            /\ UNCHANGED <<vmObj, desiredStatus, now, tickPending,
                           timeoutReady>>
    /\ UNCHANGED <<outsideLifecycle, vmArg, seen, vmRec, statusWrites, polls,
                   observed, getFailed>>

\* a ticker period elapses: the ticker offers a tick (its channel holds one),
\* and time.After fires once the timeout has elapsed
TimePasses ==
    /\ lpc = "wait"
    /\ now < TimeoutTicks + MaxOverrun
    /\ now' = now + 1
    /\ tickPending' = TRUE
    /\ timeoutReady' = (now + 1 >= TimeoutTicks)
    /\ UNCHANGED <<outsideLifecycle, vmArg, seen, vmRec, vmObj, lpc, lErr,
                   desiredStatus, statusWrites, patchIssued, polls, observed,
                   getFailed>>

\* the caller's wrapping of an error of waitForVMStatus: StopVM waits for
\* Stopped, StartVM for Running
WaitWrap(desired) ==
    IF desired = "Stopped" THEN "failed to wait for VM to stop"
    ELSE "failed to wait for VM to start"

\* waitForVMStatus, case <-timeout
WaitTimeout ==
    /\ lpc = "wait"
    /\ timeoutReady
    /\ lErr' = Error(WaitWrap(desiredStatus), "timeout waiting for VM status")
    /\ lpc' = AfterError(EntryOf(desiredStatus))
    /\ UNCHANGED <<outsideLifecycle, vmArg, seen, vmRec, vmObj, desiredStatus,
                   now, tickPending, timeoutReady, statusWrites, patchIssued,
                   polls, observed, getFailed>>

\* what one poll decides from the answer of Get and the object's
\* status.printableStatus: a failed Get ends the wait with an error, a
\* missing field or another status goes on to the next tick, the desired
\* status (compared with EqualFold) ends the wait with nil
\* (faulty variant: a missing field ends the wait with an error)
PollOutcomeAbsentFails(getOk, status, desired) ==
    IF ~getOk \/ status = Absent THEN "error"
    ELSE IF EqualFold(status, desired) THEN "match"
    ELSE "continue"
\* (faulty variant: a failed Get goes on to the next tick)
PollOutcomeGetFailureWaits(getOk, status, desired) ==
    IF ~getOk \/ status = Absent THEN "continue"
    ELSE IF EqualFold(status, desired) THEN "match"
    ELSE "continue"
PollOutcome(getOk, status, desired) ==
    IF ~getOk THEN "error"
    ELSE IF status = Absent THEN "continue"
    ELSE IF EqualFold(status, desired) THEN "match"
    ELSE "continue"

\* waitForVMStatus, case <-ticker.C: Get the object and read its status
WaitPoll(getOk) ==
    /\ lpc = "wait"
    /\ tickPending
    /\ tickPending' = FALSE
    /\ polls' = polls + 1
    /\ seen' = IF getOk THEN seen \cup {vmObj.printableStatus} ELSE seen
    /\ LET out == PollOutcome(getOk, vmObj.printableStatus, desiredStatus)
       IN  CASE out = "error" ->
                  /\ lErr' = Error(WaitWrap(desiredStatus),
                                   "failed to get VM status")
                  /\ lpc' = "done"
                  /\ UNCHANGED observed
             [] out = "match" ->
                  /\ lpc' = "persist"
                  /\ observed' = TRUE
                  /\ UNCHANGED lErr
             [] OTHER -> UNCHANGED <<lErr, lpc, observed>>
    /\ getFailed' = (getFailed \/ ~getOk)
    /\ UNCHANGED <<outsideLifecycle, vmArg, vmRec, vmObj, desiredStatus, now,
                   timeoutReady, statusWrites, patchIssued>>

\* step 4: UpdateVmStatus(vm.Name, Stopped)
StopVMPersistStopped(dbOk) ==
    /\ lpc = "persist"
    /\ desiredStatus = "Stopped"
    /\ IF dbOk
       THEN /\ vmRec' = UpdateVmStatus(vmRec, VmStatusStopped)
            /\ statusWrites' = Append(statusWrites, VmStatusStopped)
            /\ UNCHANGED lErr
       ELSE /\ lErr' = Error("failed to update VM status to Stopped", "db")
            /\ UNCHANGED <<vmRec, statusWrites>>
    /\ lpc' = "done"
    /\ UNCHANGED <<outsideLifecycle, vmArg, seen, vmObj, desiredStatus, now,
                   tickPending, timeoutReady, patchIssued, polls, observed,
                   getFailed>>

\* the virtualization controller changes the object's reported status
ClusterReports(s) ==
    /\ lpc # "done"
    /\ s # vmObj.printableStatus
    /\ vmObj' = [vmObj EXCEPT !.printableStatus = s]
    /\ UNCHANGED <<outsideLifecycle, vmArg, seen, vmRec, lpc, lErr,
                   desiredStatus, now, tickPending, timeoutReady,
                   statusWrites, patchIssued, polls, observed, getFailed>>

(* ---------------------------------------------------------------------- *)
(* StartVM                                                                 *)
(* ---------------------------------------------------------------------- *)
\* the status StartVM persists once the wait returned nil
\* (faulty variant: the status StopVM persists)
StartVMFinalStatusOfStop == VmStatusStopped
StartVMFinalStatus == VmStatusRunning

\* step 1: merge patch {"spec":{"running":true}}, then the wait starts
StartVMPatch(ok) ==
    /\ lpc = "start"
    /\ patchIssued' = TRUE
    /\ IF ok
       THEN /\ vmObj' = [vmObj EXCEPT !.running = TRUE]
            /\ lpc' = "wait"
            /\ desiredStatus' = "Running"
            /\ now' = 0
            /\ tickPending' = FALSE
            /\ timeoutReady' = FALSE
            /\ UNCHANGED lErr
       ELSE /\ lErr' = Error("failed to patch VM running state", "api")
            /\ lpc' = AfterError("start")
            /\ UNCHANGED <<vmObj, desiredStatus, now, tickPending,
                           timeoutReady>>
    /\ UNCHANGED <<outsideLifecycle, vmArg, seen, vmRec, statusWrites, polls,
                   observed, getFailed>>

\* step 3: UpdateVmStatus(vm.Name, Running)
StartVMPersistRunning(dbOk) ==
    /\ lpc = "persist"
    /\ desiredStatus = "Running"
    /\ IF dbOk
       THEN /\ vmRec' = UpdateVmStatus(vmRec, StartVMFinalStatus)
            /\ statusWrites' = Append(statusWrites, StartVMFinalStatus)
            /\ UNCHANGED lErr
       ELSE /\ lErr' = Error("failed to update VM status to Running", "db")
            /\ UNCHANGED <<vmRec, statusWrites>>
    /\ lpc' = "done"
    /\ UNCHANGED <<outsideLifecycle, vmArg, seen, vmObj, desiredStatus, now,
                   tickPending, timeoutReady, patchIssued, polls, observed,
                   getFailed>>

(* ---------------------------------------------------------------------- *)
(* DeleteVM                                                                *)
(* ---------------------------------------------------------------------- *)
\* VmService.DeleteVm: UPDATE ... SET is_deleted = true
\*                     WHERE name = ? AND is_deleted = false
DeleteVm(rec) ==
    IF rec.IsDeleted THEN rec ELSE [rec EXCEPT !.IsDeleted = TRUE]

\* "if err != nil { return err }" after each deleteResource
\* (faulty variant: DeleteVM goes on to the next object)
ReturnsOnDeleteErrorNever(ok) == FALSE
ReturnsOnDeleteError(ok) == ~ok

\* "if err := ...DeleteVm(vm.Name); err != nil { return err }": where
\* DeleteVM is after the soft delete failed
\* (faulty variant: it goes on to the cluster objects)
AfterSoftDeleteErrorGoesOn == "delete"
AfterSoftDeleteError == "done"

\* step 1: vmservice.GetVmService().DeleteVm(vm.Name)
DeleteVMSoftDelete(dbOk) ==
    /\ dpc = "idle"
    /\ IF dbOk
       THEN /\ vmRec' = DeleteVm(vmRec)
            /\ dpc' = "delete"
            /\ UNCHANGED dErr
       ELSE /\ dErr' = Error(NoErr, "db")
            /\ dpc' = AfterSoftDeleteError
            /\ UNCHANGED vmRec
    /\ UNCHANGED <<outsideDelete, delAttempts, vmResources>>

\* steps 2..7: the next deleteResource of the fixed sequence; it fails when
\* the kind has no mapping or the Delete call returns an error
DeleteVMDeleteResource(ok) ==
    /\ dpc = "delete"
    /\ LET k == Len(delAttempts) + 1
           res == DeleteOrder[k]
       IN  /\ delAttempts' = Append(delAttempts, [res |-> res, ok |-> ok])
           /\ vmResources' = IF ok THEN vmResources \ {res} ELSE vmResources
           /\ IF ReturnsOnDeleteError(ok)
              THEN /\ dErr' = Error(NoErr, "delete " \o res)
                   /\ dpc' = "done"
              ELSE /\ dpc' = IF k = Len(DeleteOrder) THEN "done" ELSE "delete"
                   /\ UNCHANGED dErr
    /\ UNCHANGED <<outsideDelete, vmRec>>

(* ---------------------------------------------------------------------- *)
(* The lifecycle handlers of VirtualMachineController                      *)
(* ---------------------------------------------------------------------- *)
\* the authenticated users; the record's UserID is RecordOwner
Users == {"owner", "other"}
RecordOwner == "owner"

\* VmService.FetchVmName(name, false): the active record of that name; nil
\* when there is none or when the query fails
\* (faulty variant: the query does not look at is_deleted)
FetchVmNameAnyRow(rec, dbOk) == IF dbOk THEN rec ELSE Nil
FetchVmName(rec, dbOk) == IF dbOk /\ ~rec.IsDeleted THEN rec ELSE Nil

\* the body of the 200 response: the *VirtualMachine the handler fetched,
\* not the record as it is when the response is written
ResponseBody(fetched, rec) == fetched

\* a handler up to its go statement: fetch the record ("vm, _ :="), compare
\* vm.UserID with the user (a nil vm panics there, which the engine's
\* recovery answers with 500), answer 401 to another user, else start the
\* operation in a goroutine of its own
HandleRequest(op, u, dbOk) ==
    /\ hpc = "ready"
    /\ request' = [op |-> op, user |-> u]
    /\ LET vm == FetchVmName(vmRec, dbOk)
       IN  IF vm = Nil
           THEN /\ response' = [code |-> 500, vm |-> Nil]
                /\ hpc' = "responded"
                /\ UNCHANGED <<lpc, dpc, vmArg>>
           ELSE IF u # RecordOwner
           THEN /\ response' = [code |-> 401, vm |-> Nil]
                /\ hpc' = "responded"
                /\ UNCHANGED <<lpc, dpc, vmArg>>
           ELSE /\ vmArg' = vm
                /\ lpc' = CASE op = "stop" -> "idle"
                            [] op = "start" -> "start"
                            [] OTHER -> lpc
                /\ dpc' = IF op = "delete" THEN "idle" ELSE dpc
                /\ hpc' = "dispatched"
                /\ UNCHANGED response
    /\ UNCHANGED <<pvars, outsideVM, vmRec, vmObj, lErr, desiredStatus, now,
                   tickPending, timeoutReady, statusWrites, patchIssued,
                   polls, observed, getFailed, seen, dErr, delAttempts,
                   vmResources>>

\* VirtualMachineController.StopVM / StartVM / DeleteVM
HandleStopVM(u, dbOk) == HandleRequest("stop", u, dbOk)
HandleStartVM(u, dbOk) == HandleRequest("start", u, dbOk)
HandleDeleteVM(u, dbOk) == HandleRequest("delete", u, dbOk)

\* the handler's last statement: c.JSON(http.StatusOK, gin.H{"vm": vm})
HandlerRespond ==
    /\ hpc = "dispatched"
    /\ response' = [code |-> 200, vm |-> ResponseBody(vmArg, vmRec)]
    /\ hpc' = "responded"
    /\ UNCHANGED <<pvars, lvars, dvars, outsideVM, request>>

InitLifecycle ==
    /\ initDocs = [i \in 1..MaxInitDocs |-> "ok"]
    /\ vmDocs = [i \in 1..MaxVMDocs |-> "ok"]
    /\ cluster = {}
    /\ ProvisionIdle
    /\ OnceIdle
    /\ AllocIdle
    /\ vmRec \in [Status : EnumVmStatus, IsDeleted : {FALSE}]
    /\ vmObj \in [running : BOOLEAN,
                   printableStatus : PrintableStatuses \cup {Absent}]
    /\ LifecycleIdle
    /\ DeleteIdle

NextLifecycle ==
    \/ \E dbOk \in BOOLEAN : StopVMPersistStopping(dbOk)
    \/ \E ok \in BOOLEAN : StopVMPatch(ok)
    \/ TimePasses
    \/ WaitTimeout
    \/ \E getOk \in BOOLEAN : WaitPoll(getOk)
    \/ \E dbOk \in BOOLEAN : StopVMPersistStopped(dbOk)
    \/ \E s \in PrintableStatuses \cup {Absent} : ClusterReports(s)

SpecLifecycle == InitLifecycle /\ [][NextLifecycle]_vars

\* StartVM alone, on a record of any status
NextStart ==
    \/ \E ok \in BOOLEAN : StartVMPatch(ok)
    \/ TimePasses
    \/ WaitTimeout
    \/ \E getOk \in BOOLEAN : WaitPoll(getOk)
    \/ \E dbOk \in BOOLEAN : StartVMPersistRunning(dbOk)
    \/ \E s \in PrintableStatuses \cup {Absent} : ClusterReports(s)

InitStart ==
    /\ initDocs = [i \in 1..MaxInitDocs |-> "ok"]
    /\ vmDocs = [i \in 1..MaxVMDocs |-> "ok"]
    /\ cluster = {}
    /\ ProvisionIdle
    /\ OnceIdle
    /\ AllocIdle
    /\ vmRec \in [Status : EnumVmStatus, IsDeleted : {FALSE}]
    /\ vmObj \in [running : BOOLEAN,
                   printableStatus : PrintableStatuses \cup {Absent}]
    /\ lpc = "start"
    /\ vmArg = vmRec
    /\ LifecycleFresh
    /\ HandlerIdle
    /\ DeleteIdle

SpecStart == InitStart /\ [][NextStart]_vars

\* DeleteVM running beside a StopVM or a StartVM that was given the same
\* record: both have been dispatched and neither has taken a step
InitDelete ==
    /\ initDocs = [i \in 1..MaxInitDocs |-> "ok"]
    /\ vmDocs = [i \in 1..MaxVMDocs |-> "ok"]
    /\ cluster = {}
    /\ ProvisionIdle
    /\ OnceIdle
    /\ AllocIdle
    /\ vmRec \in [Status : EnumVmStatus, IsDeleted : {FALSE}]
    /\ vmObj = [running |-> TRUE, printableStatus |-> "Running"]
    /\ lpc \in {"idle", "start"}
    /\ vmArg = vmRec
    /\ LifecycleFresh
    /\ HandlerIdle
    /\ dpc = "idle"
    /\ dErr = NoError
    /\ delAttempts = <<>>
    /\ vmResources = {DeleteOrder[i] : i \in DOMAIN DeleteOrder}

NextDelete ==
    \/ \E dbOk \in BOOLEAN : DeleteVMSoftDelete(dbOk)
    \/ \E ok \in BOOLEAN : DeleteVMDeleteResource(ok)
    \/ \E dbOk \in BOOLEAN : StopVMPersistStopping(dbOk)
    \/ \E ok \in BOOLEAN : StopVMPatch(ok)
    \/ \E ok \in BOOLEAN : StartVMPatch(ok)
    \/ TimePasses
    \/ WaitTimeout
    \/ \E getOk \in BOOLEAN : WaitPoll(getOk)
    \/ \E dbOk \in BOOLEAN : StopVMPersistStopped(dbOk)
    \/ \E dbOk \in BOOLEAN : StartVMPersistRunning(dbOk)
    \/ \E s \in {"Running", "Stopped"} : ClusterReports(s)

SpecDelete == InitDelete /\ [][NextDelete]_vars

\* one request to a lifecycle handler, for a record that is active or
\* soft-deleted, and the operation the handler starts
InitHandlers ==
    /\ initDocs = [i \in 1..MaxInitDocs |-> "ok"]
    /\ vmDocs = [i \in 1..MaxVMDocs |-> "ok"]
    /\ cluster = {}
    /\ ProvisionIdle
    /\ OnceIdle
    /\ AllocIdle
    /\ vmRec \in [Status : EnumVmStatus, IsDeleted : BOOLEAN]
    /\ vmObj \in [running : BOOLEAN, printableStatus : {"Running", "Stopped"}]
    /\ lpc = "none"
    /\ vmArg = Nil
    /\ LifecycleFresh
    /\ DeleteIdle
    /\ hpc = "ready"
    /\ request = NoRequest
    /\ response = NoResponse

NextHandlers ==
    \/ \E u \in Users, dbOk \in BOOLEAN : HandleStopVM(u, dbOk)
    \/ \E u \in Users, dbOk \in BOOLEAN : HandleStartVM(u, dbOk)
    \/ \E u \in Users, dbOk \in BOOLEAN : HandleDeleteVM(u, dbOk)
    \/ HandlerRespond
    \/ \E dbOk \in BOOLEAN : DeleteVMSoftDelete(dbOk)
    \/ \E ok \in BOOLEAN : DeleteVMDeleteResource(ok)
    \/ \E dbOk \in BOOLEAN : StopVMPersistStopping(dbOk)
    \/ \E ok \in BOOLEAN : StopVMPatch(ok)
    \/ \E ok \in BOOLEAN : StartVMPatch(ok)
    \/ TimePasses
    \/ WaitTimeout
    \/ \E getOk \in BOOLEAN : WaitPoll(getOk)
    \/ \E dbOk \in BOOLEAN : StopVMPersistStopped(dbOk)
    \/ \E dbOk \in BOOLEAN : StartVMPersistRunning(dbOk)
    \/ \E s \in {"Running", "Stopped"} : ClusterReports(s)

SpecHandlers == InitHandlers /\ [][NextHandlers]_vars

\* the row VmService.CreateUserVM builds: "Status: models.VmStatusProvisioning"
\* (faulty variant: the status is left at the zero value of the type)
NewVirtualMachineUnset == [Status |-> "", IsDeleted |-> FALSE]
NewVirtualMachine == [Status |-> VmStatusProvisioning, IsDeleted |-> FALSE]

\* VmService.CreateUserVM: db.Create of the new row; a failed Create leaves
\* the table as it was
CreateRecord(dbOk) ==
    /\ vmRec = Nil
    /\ hpc = "none"
    /\ IF dbOk
       THEN /\ vmRec' = NewVirtualMachine
            /\ hpc' = "ready"
       ELSE UNCHANGED <<vmRec, hpc>>
    /\ UNCHANGED <<pvars, dvars, outsideVM, vmObj, lpc, lErr, desiredStatus,
                   now, tickPending, timeoutReady, statusWrites, patchIssued,
                   polls, observed, getFailed, vmArg, seen, request,
                   response>>

\* the handler has answered and the operation it started, if any, has
\* returned: the next request is awaited
NextRequest ==
    /\ hpc = "responded"
    /\ lpc \in {"none", "done"}
    /\ dpc \in {"none", "done"}
    /\ hpc' = "ready"
    /\ request' = NoRequest
    /\ response' = NoResponse
    /\ lpc' = "none"
    /\ vmArg' = Nil
    /\ lErr' = NoError
    /\ desiredStatus' = ""
    /\ now' = 0
    /\ tickPending' = FALSE
    /\ timeoutReady' = FALSE
    /\ statusWrites' = <<>>
    /\ patchIssued' = FALSE
    /\ polls' = 0
    /\ observed' = FALSE
    /\ getFailed' = FALSE
    /\ seen' = {}
    /\ dpc' = "none"
    /\ dErr' = NoError
    /\ delAttempts' = <<>>
    /\ UNCHANGED <<pvars, outsideVM, vmRec, vmObj, vmResources>>

\* the life of one record: no row at first, then its creation, then lifecycle
\* requests one after the other
InitRecord ==
    /\ initDocs = [i \in 1..MaxInitDocs |-> "ok"]
    /\ vmDocs = [i \in 1..MaxVMDocs |-> "ok"]
    /\ cluster = {}
    /\ ProvisionIdle
    /\ OnceIdle
    /\ AllocIdle
    /\ vmRec = Nil
    /\ vmObj = [running |-> TRUE, printableStatus |-> "Running"]
    /\ lpc = "none"
    /\ vmArg = Nil
    /\ LifecycleFresh
    /\ DeleteIdle
    /\ HandlerIdle

NextRecord ==
    \/ \E dbOk \in BOOLEAN : CreateRecord(dbOk)
    \/ NextRequest
    \/ NextHandlers

SpecRecord == InitRecord /\ [][NextRecord]_vars

(* ---------------------------------------------------------------------- *)
(* GetK8sService                                                           *)
(* ---------------------------------------------------------------------- *)
\* sync.Once after the function given to Do has returned: done, whether or
\* not the function achieved anything
\* (faulty variant: a failed construction leaves the Once unused)
OnceAfterRetriesOnFailure(ok) == IF ok THEN "done" ELSE "fresh"
OnceAfter(ok) == "done"

\* a goroutine calls GetK8sService: "var err error"
GetK8sService(c) ==
    /\ gpc[c] = "idle"
    /\ gCalls[c] < MaxGetCalls
    /\ gCalls' = [gCalls EXCEPT ![c] = @ + 1]
    /\ gErr' = [gErr EXCEPT ![c] = NoErr]
    /\ gpc' = [gpc EXCEPT ![c] = "do"]
    /\ UNCHANGED <<pvars, lvars, dvars, hvars, cvars, avars, fvars, once, instance, constructions,
                   gLog>>

\* once.Do(func() {...}): the first caller runs the function; a caller that
\* arrives while it runs blocks until it has returned; a caller that finds
\* the Once done skips the function
OnceDo(c) ==
    /\ gpc[c] = "do"
    /\ once # "running"
    /\ IF once = "fresh"
       THEN /\ once' = "running"
            /\ constructions' = constructions + 1
            /\ gpc' = [gpc EXCEPT ![c] = "config"]
       ELSE /\ gpc' = [gpc EXCEPT ![c] = "after"]
            /\ UNCHANGED <<once, constructions>>
    /\ UNCHANGED <<pvars, lvars, dvars, hvars, cvars, avars, fvars, instance, gErr, gCalls, gLog>>

\* a step of the function that can fail: on failure it assigns the caller's
\* err and returns
BodyStep(c, at, next, ok, msg) ==
    /\ gpc[c] = at
    /\ IF ok
       THEN /\ gpc' = [gpc EXCEPT ![c] = next]
            /\ UNCHANGED <<gErr, once>>
       ELSE /\ gErr' = [gErr EXCEPT ![c] = msg]
            /\ once' = OnceAfter(FALSE)
            /\ gpc' = [gpc EXCEPT ![c] = "after"]
    /\ UNCHANGED <<pvars, lvars, dvars, hvars, cvars, avars, fvars, instance, constructions,
                   gCalls, gLog>>

\* the rest configuration: mounted token, in-cluster, or kubeconfig
BodyConfig(c, ok) ==
    BodyStep(c, "config", "dynamic", ok, "failed to get k8s config")

\* dynamic.NewForConfig
BodyDynamicClient(c, ok) ==
    BodyStep(c, "dynamic", "discovery", ok, "failed to create dynamic client")

\* discovery.NewDiscoveryClientForConfig, then "instance = &K8sService{...}"
BodyDiscovery(c, ok) ==
    /\ gpc[c] = "discovery"
    /\ IF ok
       THEN /\ instance' = [id |-> constructions]
            /\ once' = OnceAfter(TRUE)
            /\ UNCHANGED gErr
       ELSE /\ gErr' = [gErr EXCEPT ![c] =
                           "failed to create discovery client"]
            /\ once' = OnceAfter(FALSE)
            /\ UNCHANGED instance
    /\ gpc' = [gpc EXCEPT ![c] = "after"]
    /\ UNCHANGED <<pvars, lvars, dvars, hvars, cvars, avars, fvars, constructions, gCalls, gLog>>

\* "if err != nil { return nil, err }; return instance, nil"
GetK8sServiceReturn(c) ==
    /\ gpc[c] = "after"
    /\ gLog' = Append(gLog,
                      [caller |-> c,
                       svc |-> IF gErr[c] # NoErr THEN Nil ELSE instance,
                       err |-> gErr[c]])
    /\ gpc' = [gpc EXCEPT ![c] = "idle"]
    /\ UNCHANGED <<pvars, lvars, dvars, hvars, cvars, avars, fvars, once, instance, constructions,
                   gErr, gCalls>>

NextOnce ==
    \/ \E c \in Callers : GetK8sService(c)
    \/ \E c \in Callers : OnceDo(c)
    \/ \E c \in Callers, ok \in BOOLEAN : BodyConfig(c, ok)
    \/ \E c \in Callers, ok \in BOOLEAN : BodyDynamicClient(c, ok)
    \/ \E c \in Callers, ok \in BOOLEAN : BodyDiscovery(c, ok)
    \/ \E c \in Callers : GetK8sServiceReturn(c)

InitOnce ==
    /\ initDocs = [i \in 1..MaxInitDocs |-> "ok"]
    /\ vmDocs = [i \in 1..MaxVMDocs |-> "ok"]
    /\ cluster = {}
    /\ ProvisionIdle
    /\ OnceIdle
    /\ AllocIdle
    /\ vmRec = [Status |-> VmStatusProvisioning, IsDeleted |-> FALSE]
    /\ vmObj = [running |-> TRUE, printableStatus |-> Absent]
    /\ LifecycleIdle
    /\ DeleteIdle

SpecOnce == InitOnce /\ [][NextOnce]_vars

(* ---------------------------------------------------------------------- *)
(* The port allocator of VmService                                         *)
(* ---------------------------------------------------------------------- *)
\* a row of the table
Row(name, port, deleted) ==
    [Name |-> name, NodePort |-> port, IsDeleted |-> deleted]

\* Where("is_deleted = ?", false).Pluck("node_port", &usedPorts), as the
\* key set of portMap
\* (faulty variant: the query does not look at is_deleted)
UsedPortsAllRows(table) == {r.NodePort : r \in table}
UsedPorts(table) == {r.NodePort : r \in {x \in table : ~x.IsDeleted}}

\* "for port := first; port <= last; port++ { if !portMap[port] { return
\* port, nil } }", 0 when the loop ends: the first port of first..last, in
\* ascending order, that is not a key of portMap.  The range is walked by
\* halves, lower half first, which visits the ports in the loop's order
RECURSIVE ScanPorts(_, _, _)
ScanPorts(first, last, portMap) ==
    IF first > last THEN 0
    ELSE IF first = last THEN (IF first \notin portMap THEN first ELSE 0)
    ELSE LET mid == (first + last) \div 2
             lower == ScanPorts(first, mid, portMap)
         IN  IF lower # 0 THEN lower ELSE ScanPorts(mid + 1, last, portMap)

ErrNoPorts == "no available ports in range 30003-30300"

\* VmService.GetAvailablePort
GetAvailablePort(table, dbOk) ==
    IF ~dbOk THEN PortResult(0, "db")
    ELSE LET port == ScanPorts(AllocMinPort, AllocMaxPort, UsedPorts(table))
         IN  IF port = 0 THEN PortResult(0, ErrNoPorts)
             ELSE PortResult(port, NoErr)

\* VmService.IsPortAvailable: First(&vm) with
\* Where("node_port = ? AND is_deleted = false", port)
\* (faulty variant: the query does not look at is_deleted)
IsPortAvailableAnyRow(table, port, dbOk) ==
    IF ~dbOk THEN ProbeResult(port, FALSE, "db")
    ELSE ProbeResult(port, ~(\E r \in table : r.NodePort = port), NoErr)
IsPortAvailable(table, port, dbOk) ==
    IF ~dbOk THEN ProbeResult(port, FALSE, "db")
    ELSE IF \E r \in table : r.NodePort = port /\ ~r.IsDeleted
    THEN ProbeResult(port, FALSE, NoErr)
    ELSE ProbeResult(port, TRUE, NoErr)

\* the table after GetAvailablePort returned port to a caller: as before
\* (faulty variant: the allocator books the port for the caller)
TableAfterScanBooked(table, a, port) ==
    IF port = 0 THEN table ELSE table \cup {Row(-a, port, FALSE)}
TableAfterScan(table, a, port) == table

\* a caller asks for a port
CallGetAvailablePort(a, dbOk) ==
    /\ apc[a] = "idle"
    /\ LET res == GetAvailablePort(vms, dbOk)
       IN  /\ aRet' = [aRet EXCEPT ![a] = res]
           /\ vms' = TableAfterScan(vms, a, res.port)
    /\ scanAt' = [scanAt EXCEPT ![a] = version]
    /\ apc' = [apc EXCEPT ![a] = "scanned"]
    /\ UNCHANGED <<pvars, lvars, dvars, hvars, cvars, ovars, fvars, version, probe>>

\* VmService.CreateUserVM with the port the caller was given: db.Create of
\* a row named after the caller; the unique index on name refuses a second
\* row of that name
CallCreateUserVM(a, dbOk) ==
    /\ apc[a] = "scanned"
    /\ aRet[a].err = NoErr
    /\ IF dbOk /\ ~(\E r \in vms : r.Name = a)
       THEN /\ vms' = vms \cup {Row(a, aRet[a].port, FALSE)}
            /\ version' = version + 1
            /\ apc' = [apc EXCEPT ![a] = "created"]
       ELSE /\ apc' = [apc EXCEPT ![a] = "failed"]
            /\ UNCHANGED <<vms, version>>
    /\ UNCHANGED <<pvars, lvars, dvars, hvars, cvars, ovars, fvars, aRet, scanAt, probe>>

\* VmService.DeleteVm on an active row of the table
CallDeleteVm(name) ==
    /\ \E r \in vms :
          /\ r.Name = name
          /\ ~r.IsDeleted
          /\ vms' = (vms \ {r}) \cup {DeleteVm(r)}
    /\ version' = version + 1
    /\ UNCHANGED <<pvars, lvars, dvars, hvars, cvars, ovars, fvars, apc, aRet, scanAt,
                   probe>>

\* somebody asks whether a port is free
CallIsPortAvailable(port, dbOk) ==
    /\ probe' = IsPortAvailable(vms, port, dbOk)
    /\ UNCHANGED <<pvars, lvars, dvars, hvars, cvars, ovars, fvars, vms, version, apc,
                   aRet, scanAt>>

\* tables the allocator is started on: empty; three active rows around a
\* gap, a soft-deleted row in the gap and active rows just outside the
\* range; every port of the range held by an active row; the same with the
\* holder of the last port soft-deleted
ExampleTable ==
    {Row(101, 30003, FALSE), Row(102, 30004, FALSE), Row(103, 30006, FALSE),
     Row(104, 30005, TRUE), Row(105, 30002, FALSE), Row(106, 30301, FALSE)}
FullTable == {Row(p, p, FALSE) : p \in AllocMinPort..AllocMaxPort}
FullButLastTable ==
    (FullTable \ {Row(AllocMaxPort, AllocMaxPort, FALSE)})
        \cup {Row(AllocMaxPort, AllocMaxPort, TRUE)}
InitTables == {{}, ExampleTable, FullTable, FullButLastTable}

\* the rows DeleteVm is called for (the first caller's row, the holder of
\* 30003 in the example table and in the full tables), and the ports
\* IsPortAvailable is asked about
DeletableNames == {1, 101, 30003}
ProbePorts == {30003, 30005}

InitPorts ==
    /\ initDocs = [i \in 1..MaxInitDocs |-> "ok"]
    /\ vmDocs = [i \in 1..MaxVMDocs |-> "ok"]
    /\ cluster = {}
    /\ ProvisionIdle
    /\ OnceIdle
    /\ vms \in InitTables
    /\ AllocCallersIdle
    /\ vmRec = [Status |-> VmStatusProvisioning, IsDeleted |-> FALSE]
    /\ vmObj = [running |-> TRUE, printableStatus |-> Absent]
    /\ LifecycleIdle
    /\ DeleteIdle

NextPorts ==
    \/ \E a \in AllocCallers, dbOk \in BOOLEAN : CallGetAvailablePort(a, dbOk)
    \/ \E a \in AllocCallers, dbOk \in BOOLEAN : CallCreateUserVM(a, dbOk)
    \/ \E name \in DeletableNames : CallDeleteVm(name)
    \/ \E port \in ProbePorts, dbOk \in BOOLEAN :
          CallIsPortAvailable(port, dbOk)

SpecPorts == InitPorts /\ [][NextPorts]_vars

\* the record store from a fresh database: every row is one that
\* VmService.CreateUserVM wrote with a port GetAvailablePort returned
InitStore ==
    /\ InitPorts
    /\ vms = {}

SpecStore == InitStore /\ [][NextPorts]_vars

(* ---------------------------------------------------------------------- *)
(* checkInjection on its own                                               *)
(* ---------------------------------------------------------------------- *)
\* the values each argument is drawn from: values the checks accept, values
\* at and next to every limit, and values each check refuses
NamespaceValues ==
    {<<>>,
     <<"m", "y", "-", "n", "s">>,
     <<"M", "y", "-", "N", "S">>,
     <<"-", "a", "b", "c">>,
     <<"a", "b", "c", "-">>,
     <<"a">>,
     <<"a", "_", "b">>}
NameValues ==
    {<<>>,
     <<"v", "m", "1">>,
     <<"V", "m", "1">>,
     <<"v", "m", "-">>}
PasswordValues ==
    {<<>>,
     <<"P", "a", "s", "s", "w", "0", "r">>,
     <<"P", "a", "s", "s", "w", "0", "r", "d">>,
     <<"P", "a", "s", "s", "w", "0", "r", "d", "P", "a", "s", "s", "w", "0", "r", "d">>,
     <<"P", "a", "s", "s", "w", "0", "r", "d", "P", "a", "s", "s", "w", "0", "r", "d", "1">>,
     <<"P", "a", "s", "s", "\"", "w", "0", "r", "d">>,
     <<"P", "a", "s", "s", "'", "w", "0", "r", "d">>,
     <<"P", "a", "s", "s", "\\", "w", "0", "r", "d">>,
     <<"P", "a", "s", "s", " ", "w", "0", "r", "d">>,
     <<"P", "a", "s", "s", "\n", "w", "0", "r", "d">>,
     <<"P", "@", "s", "s", "{", "w", "}", "0", "r", "d", "!">>,
     <<"{", "{", "V", "M", "_", "N", "A", "M", "E", "}", "}">>,
     <<"P", "a", " ", "s", "s", "0", "r">>}
DNSHostValues ==
    {<<>>,
     <<"a", ".", "i", "o">>,
     <<"A", "-", "b", ".", "I", "O">>,
     <<"a", "_", "b", ".", "i", "o">>,
     <<"a", ";", "b">>}
ManifestDirValues ==
    {<<>>,
     <<"y", "d", "/", "c", "l", "i", "e", "n", "t", "-", "v", "m">>,
     <<".", ".", "/", "x">>,
     <<"/", "a", "b", "s">>,
     <<"a", ".", ".", "b">>,
     <<"a", "/", ".", ".", "/", "b">>,
     <<"a", "/", ".", ".", "/", ".", ".", "/", "b">>,
     <<"\\", "x">>,
     <<".", "/", "a">>,
     <<"a", "/", "b", "/", ".", ".">>,
     <<".", ".">>,
     <<"a", "/", ".", ".", "b">>}
PortValues == {0, MinPort - 1, MinPort, AllocMaxPort, MaxPortExcl - 1, MaxPortExcl}

Fields == {"Namespace", "Name", "Password", "DNSHost", "ManifestDir", "Port"}
ValuesOf(f) ==
    CASE f = "Namespace" -> NamespaceValues
      [] f = "Name" -> NameValues
      [] f = "Password" -> PasswordValues
      [] f = "DNSHost" -> DNSHostValues
      [] f = "ManifestDir" -> ManifestDirValues
      [] OTHER -> PortValues

\* the argument lists: the valid one with at most two arguments replaced
InjectionInputs ==
    UNION {{[[ValidParams EXCEPT ![f] = v] EXCEPT ![g] = w] :
               v \in ValuesOf(f), w \in ValuesOf(g)} : f \in Fields, g \in Fields}

\* the call s.checkInjection(...) returns
CallCheckInjection ==
    /\ ~injDone
    /\ injErr' = checkInjection(injArgs.Namespace, injArgs.Name,
                                injArgs.Password, injArgs.DNSHost,
                                injArgs.ManifestDir, injArgs.Port)
    /\ injDone' = TRUE
    /\ UNCHANGED <<pvars, lvars, dvars, hvars, cvars, ovars, avars, injArgs,
                   mvars>>

InitInjection ==
    /\ initDocs = [i \in 1..MaxInitDocs |-> "ok"]
    /\ vmDocs = [i \in 1..MaxVMDocs |-> "ok"]
    /\ cluster = {}
    /\ CreateUserVMIdle
    /\ ConcurrentIdle
    /\ injArgs \in InjectionInputs
    /\ injDone = FALSE
    /\ injErr = NoErr
    /\ ManifestIdle
    /\ OnceIdle
    /\ AllocIdle
    /\ vmRec = [Status |-> VmStatusProvisioning, IsDeleted |-> FALSE]
    /\ vmObj = [running |-> TRUE, printableStatus |-> Absent]
    /\ LifecycleIdle
    /\ DeleteIdle

NextInjection == CallCheckInjection

SpecInjection == InitInjection /\ [][NextInjection]_vars

(* ---------------------------------------------------------------------- *)
(* applyManifests on the text of one file                                  *)
(* ---------------------------------------------------------------------- *)
\* strings.ReplaceAll: the occurrences of old, found from the left without
\* overlap, replaced by new; for an empty old the text is returned (no key
\* of the replacement maps is empty)
RECURSIVE ReplaceAll(_, _, _)
ReplaceAll(s, old, new) ==
    IF old = <<>> \/ Len(s) < Len(old) THEN s
    ELSE IF SubSeq(s, 1, Len(old)) = old
    THEN new \o ReplaceAll(SubSeq(s, Len(old) + 1, Len(s)), old, new)
    ELSE <<s[1]>> \o ReplaceAll(Tail(s), old, new)

\* strings.Split(s, sep) for a sep that is not empty: cur is the piece
\* being read
RECURSIVE Split(_, _, _)
Split(s, sep, cur) ==
    IF Len(s) < Len(sep) THEN <<cur \o s>>
    ELSE IF SubSeq(s, 1, Len(sep)) = sep
    THEN <<cur>> \o Split(SubSeq(s, Len(sep) + 1, Len(s)), sep, <<>>)
    ELSE Split(Tail(s), sep, Append(cur, s[1]))

\* strings.TrimSpace
SpaceChars == {" ", "\t", "\n", "\r"}
RECURSIVE TrimLeft(_)
TrimLeft(s) ==
    IF s # <<>> /\ s[1] \in SpaceChars THEN TrimLeft(Tail(s)) ELSE s
RECURSIVE TrimRight(_)
TrimRight(s) ==
    IF s # <<>> /\ s[Len(s)] \in SpaceChars
    THEN TrimRight(SubSeq(s, 1, Len(s) - 1)) ELSE s
TrimSpace(s) == TrimRight(TrimLeft(s))

\* fmt.Sprintf("%d", vmPort) for a port that is not negative
DigitSeq == <<"0", "1", "2", "3", "4", "5", "6", "7", "8", "9">>
RECURSIVE Sprintf(_)
Sprintf(n) ==
    IF n < 10 THEN <<DigitSeq[n + 1]>>
    ELSE Sprintf(n \div 10) \o <<DigitSeq[(n % 10) + 1]>>

\* the separator applyManifests splits on
Separator == <<"\n", "-", "-", "-", "\n">>

\* the tokens of the replacement maps
NamespaceToken == <<"{", "{", "N", "A", "M", "E", "S", "P", "A", "C", "E", "}", "}">>
NodePortToken == <<"{", "{", "N", "O", "D", "E", "P", "O", "R", "T", "}", "}">>
VMNameToken == <<"{", "{", "V", "M", "_", "N", "A", "M", "E", "}", "}">>
DNSHostToken == <<"{", "{", "D", "N", "S", "_", "H", "O", "S", "T", "}", "}">>
PasswordToken == <<"{", "{", "P", "A", "S", "S", "W", "O", "R", "D", "}", "}">>

Tokens ==
    {NamespaceToken, NodePortToken, VMNameToken, DNSHostToken, PasswordToken}

\* CreateUserVM: initReplacements and vmReplacements
initReplacements(p) == NamespaceToken :> p.Namespace
vmReplacements(p) ==
    (NamespaceToken :> p.Namespace) @@ (NodePortToken :> Sprintf(p.Port))
        @@ (VMNameToken :> p.Name) @@ (DNSHostToken :> p.DNSHost)
        @@ (PasswordToken :> p.Password)

\* decUnstructured.Decode: the block is a document that states its kind
\* (the decoder itself is outside the repository: a block decodes when it
\* has a line "kind: ...")
Decodes(doc) == Contains(doc, <<"k", "i", "n", "d", ":">>)

\* the manifests: a secret with the name and the password; two documents
\* around a blank block; a second block that does not decode; a file of
\* blanks; a file without a token or a separator line
SecretFile ==
    <<"k", "i", "n", "d", ":", " ", "S", "\n", "n", ":", " ", "{",
      "{", "V", "M", "_", "N", "A", "M", "E", "}", "}", "\n", "p",
      ":", " ", "{", "{", "P", "A", "S", "S", "W", "O", "R", "D",
      "}", "}", "\n">>
MultiFile ==
    <<"k", "i", "n", "d", ":", " ", "N", "\n", "n", "s", ":", " ",
      "{", "{", "N", "A", "M", "E", "S", "P", "A", "C", "E", "}",
      "}", "/", "{", "{", "N", "A", "M", "E", "S", "P", "A", "C",
      "E", "}", "}", "\n", "-", "-", "-", "\n", " ", "\t", "\n", "-",
      "-", "-", "\n", "k", "i", "n", "d", ":", " ", "V", "\n", "h",
      ":", " ", "{", "{", "D", "N", "S", "_", "H", "O", "S", "T",
      "}", "}", ":", "{", "{", "N", "O", "D", "E", "P", "O", "R",
      "T", "}", "}", "\n">>
BrokenFile ==
    <<"k", "i", "n", "d", ":", " ", "A", "\n", "-", "-", "-", "\n",
      "n", ":", " ", "{", "{", "V", "M", "_", "N", "A", "M", "E",
      "}", "}", "\n", "-", "-", "-", "\n", "k", "i", "n", "d", ":",
      " ", "B", "\n">>
BlankFile ==
    <<" ", "\n", "\n">>
PlainFile ==
    <<"k", "i", "n", "d", ":", " ", "C", "\n", "-", "-", "-", " ",
      "\n", "x", ":", " ", "{", "N", "A", "M", "E", "S", "P", "A",
      "C", "E", "}", "\n">>
ManifestFiles ==
    [a |-> SecretFile, b |-> MultiFile, c |-> BrokenFile, d |-> BlankFile,
     e |-> PlainFile]

\* the parameters of the call: the valid ones, and the same with a password
\* that spells a token
TokenPassword == [ValidParams EXCEPT !.Password = VMNameToken]
ManifestParams ==
    {p \in {ValidParams, TokenPassword} :
        checkInjection(p.Namespace, p.Name, p.Password, p.DNSHost,
                       p.ManifestDir, p.Port) = NoErr}

\* os.ReadFile and "text := string(content)"
ReadFile(ok) ==
    /\ mpc = "read"
    /\ IF ok
       THEN /\ text' = content
            /\ pending' = DOMAIN replacements
            /\ mpc' = "replace"
            /\ UNCHANGED mErr
       ELSE /\ mErr' = FileError("failed to read file", fileName)
            /\ mpc' = "done"
            /\ UNCHANGED <<text, pending>>
    /\ UNCHANGED <<pvars, lvars, dvars, hvars, cvars, ovars, avars, injArgs,
                   injDone, injErr, fileName, content, replacements, docs,
                   docAt, applied>>

\* one iteration of "for k, v := range replacements": the keys come in the
\* order the map iteration yields them, which is any order
ReplaceNext(k) ==
    /\ mpc = "replace"
    /\ k \in pending
    /\ text' = ReplaceAll(text, k, replacements[k])
    /\ pending' = pending \ {k}
    /\ UNCHANGED <<pvars, lvars, dvars, hvars, cvars, ovars, avars, injArgs,
                   injDone, injErr, fileName, content, replacements, docs,
                   docAt, mpc, applied, mErr>>

\* docs := strings.Split(text, "\n---\n")
SplitText ==
    /\ mpc = "replace"
    /\ pending = {}
    /\ docs' = Split(text, Separator, <<>>)
    /\ docAt' = 1
    /\ mpc' = "docs"
    /\ UNCHANGED <<pvars, lvars, dvars, hvars, cvars, ovars, avars, injArgs,
                   injDone, injErr, fileName, content, replacements, text,
                   pending, applied, mErr>>

\* the answers of the cluster to a decoded block: no mapping for its kind,
\* or the answer to the create call
BlockOutcomes == {"created", "already exists", "nomap", "error"}

\* one iteration of "for _, doc := range docs"
NextBlock(outcome) ==
    /\ mpc = "docs"
    /\ docAt <= Len(docs)
    /\ LET doc == docs[docAt]
       IN  IF TrimSpace(doc) = <<>>
           THEN /\ docAt' = docAt + 1
                /\ UNCHANGED <<mpc, applied, mErr>>
           ELSE IF ~Decodes(doc)
           THEN /\ mErr' = FileError("failed to decode yaml in", fileName)
                /\ mpc' = "done"
                /\ UNCHANGED <<docAt, applied>>
           ELSE IF outcome = "nomap"
           THEN /\ mErr' = FileError("failed to find mapping", "")
                /\ mpc' = "done"
                /\ UNCHANGED <<docAt, applied>>
           ELSE /\ applied' = Append(applied, docAt)
                /\ IF outcome = "error"
                   THEN /\ mErr' = FileError("failed to create resource", "")
                        /\ mpc' = "done"
                        /\ UNCHANGED docAt
                   ELSE /\ docAt' = docAt + 1
                        /\ UNCHANGED <<mpc, mErr>>
    /\ UNCHANGED <<pvars, lvars, dvars, hvars, cvars, ovars, avars, injArgs,
                   injDone, injErr, fileName, content, replacements, text,
                   pending, docs>>

\* the blocks of the file are used up: "return created, nil"
ReturnCreated ==
    /\ mpc = "docs"
    /\ docAt > Len(docs)
    /\ mpc' = "done"
    /\ UNCHANGED <<pvars, lvars, dvars, hvars, cvars, ovars, avars, injArgs,
                   injDone, injErr, fileName, content, replacements, text,
                   pending, docs, docAt, applied, mErr>>

\* applyManifests has come to a file of the bootstrap directory or of the
\* VM directory, with the map CreateUserVM hands it for that directory
InitManifest ==
    /\ initDocs = [i \in 1..MaxInitDocs |-> "ok"]
    /\ vmDocs = [i \in 1..MaxVMDocs |-> "ok"]
    /\ cluster = {}
    /\ CreateUserVMIdle
    /\ ConcurrentIdle
    /\ InjectionIdle
    /\ fileName \in DOMAIN ManifestFiles
    /\ content = ManifestFiles[fileName]
    /\ \E p \in ManifestParams :
          replacements \in {initReplacements(p), vmReplacements(p)}
    /\ text = <<>>
    /\ pending = {}
    /\ docs = <<>>
    /\ docAt = 0
    /\ mpc = "read"
    /\ applied = <<>>
    /\ mErr = FileError(NoErr, "")
    /\ OnceIdle
    /\ AllocIdle
    /\ vmRec = [Status |-> VmStatusProvisioning, IsDeleted |-> FALSE]
    /\ vmObj = [running |-> TRUE, printableStatus |-> Absent]
    /\ LifecycleIdle
    /\ DeleteIdle

NextManifest ==
    \/ \E ok \in BOOLEAN : ReadFile(ok)
    \/ \E k \in Tokens : ReplaceNext(k)
    \/ SplitText
    \/ \E outcome \in BlockOutcomes : NextBlock(outcome)
    \/ ReturnCreated

SpecManifest == InitManifest /\ [][NextManifest]_vars

Next ==
    \/ \E p \in ParamCases : CreateUserVM(p)
    \/ \E ok \in BOOLEAN : ApplyReadDir(ok)
    \/ \E fault \in BOOLEAN : ApplyNextDoc(fault)
    \/ AfterInit
    \/ AfterVM
    \/ \E fault \in BOOLEAN : Rollback(fault)

Spec == Init /\ [][Next]_vars

(* ---------------------------------------------------------------------- *)
(* Helpers of the properties                                               *)
(* ---------------------------------------------------------------------- *)
Range(f) == {f[i] : i \in DOMAIN f}

RECURSIVE Reverse(_)
Reverse(q) == IF q = <<>> THEN <<>> ELSE Append(Reverse(Tail(q)), Head(q))

FromVMDir(r) == r[1] = "client-vm"
WasCreated(c) == c.resp = "created"

RECURSIVE ResOf(_)
\* the resources of a sequence of create calls
ResOf(cs) == IF cs = <<>> THEN <<>> ELSE <<Head(cs).res>> \o ResOf(Tail(cs))

\* the resources rollback called deleteResource on
DeleteIssued == {deleteLog[i].res : i \in DOMAIN deleteLog}
AllDeletesSucceeded == \A i \in DOMAIN deleteLog : deleteLog[i].out = "deleted"

InitFailed == retErr.wrap = "failed to apply client-init manifests"
VMFailed == retErr.wrap = "failed to apply client-vm manifests"
Rejected == retErr.wrap = NoErr /\ retErr.cause # NoErr

\* every document of client-init describes a resource that is in objs
BootstrapPresent(objs) ==
    \A i \in DOMAIN initDocs :
        initDocs[i] = "ok" /\ Res("client-init", i) \in objs

(* ---------------------------------------------------------------------- *)
(* Properties of CreateUserVM and applyManifests                           *)
(* ---------------------------------------------------------------------- *)

\* C1: when CreateUserVM has returned a VM-phase error, rollback has called
\* deleteResource on every resource this call created (bootstrap phase and
\* VM-phase documents before the failing one), and when all those deletes
\* succeeded none of them is left in the cluster.
C1_VMFailureRollsBackEverything ==
    (pc = "done" /\ VMFailed) =>
        /\ Range(callCreated) \subseteq DeleteIssued
        /\ AllDeletesSucceeded => Range(callCreated) \cap cluster = {}

\* C2: when CreateUserVM has returned a bootstrap-phase error after the
\* bootstrap phase created resources, rollback has called deleteResource on
\* each of them, the VM phase did not run, and the error is the bootstrap's.
C2_BootstrapFailureRollsBack ==
    (pc = "done" /\ InitFailed /\ callCreated # <<>>) =>
        /\ Range(callCreated) \subseteq DeleteIssued
        /\ vmCreated = <<>>
        /\ \A i \in DOMAIN callCreated : ~FromVMDir(callCreated[i])
        /\ retErr.cause = am.err

\* C3: the rollback sweep calls deleteResource once per entry of the
\* combined ledger (allCreatedResources) in reverse order, whatever the
\* deletes answer, and the error returned is the phase's error.
C3_RollbackSweep ==
    /\ pc = "rollback" =>
          /\ Len(deleteLog) = Len(allCreatedResources) - rollbackIdx
          /\ \A i \in DOMAIN deleteLog :
                deleteLog[i].res =
                    allCreatedResources[Len(allCreatedResources) - i + 1]
    /\ (pc = "done" /\ (InitFailed \/ VMFailed)) =>
          /\ [i \in DOMAIN deleteLog |-> deleteLog[i].res]
                = Reverse(allCreatedResources)
          /\ retErr.cause = am.err
          /\ am.err # NoErr

C3_Witness ==
    /\ pc = "done"
    /\ VMFailed
    /\ Len(allCreatedResources) >= 2
    /\ Len(deleteLog) = Len(allCreatedResources)
    /\ deleteLog[1].out = "failed"
    /\ deleteLog[2].out = "deleted"

\* C4: when checkInjection rejects the arguments, CreateUserVM has returned
\* that error and nothing else happened: no directory was read, no create
\* and no delete was applied, the cluster is as it was.
C4_RejectedHasNoSideEffects ==
    (calls > 0 /\ checkInjection(params.Namespace, params.Name,
                                 params.Password, params.DNSHost,
                                 params.ManifestDir, params.Port) # NoErr) =>
        /\ pc = "done"
        /\ Rejected
        /\ vmInfo = Nil
        /\ idx = 0
        /\ am = EmptyRun
        /\ callCreated = <<>>
        /\ deleteLog = <<>>
        /\ cluster = clusterAtStart

C4_Witness ==
    /\ pc = "done"
    /\ Rejected
    /\ retErr.cause = "invalid manifest directory"
    /\ cluster # {}

\* C5: when both phases succeeded, the result echoes the arguments, its
\* CreatedResources is the ledger of the VM phase (what this call created
\* from client-vm, in order, and nothing from client-init), and no delete
\* was applied.
C5_SuccessResult ==
    (pc = "done" /\ success) =>
        /\ retErr = NoError
        /\ vmInfo = [Namespace |-> params.Namespace, Name |-> params.Name,
                     Port |-> params.Port, Password |-> params.Password,
                     DNSHost |-> params.DNSHost,
                     CreatedResources |-> vmCreated]
        /\ vmCreated = SelectSeq(callCreated, FromVMDir)
        /\ \A i \in DOMAIN vmInfo.CreatedResources :
              FromVMDir(vmInfo.CreatedResources[i])
        /\ deleteLog = <<>>

C5_Witness ==
    /\ pc = "done"
    /\ success
    /\ initCreated # <<>>
    /\ Len(vmInfo.CreatedResources) = MaxVMDocs

\* C6: a bootstrap run (applyManifests on client-init) that starts with
\* every bootstrap resource in the cluster, and into which no I/O or API
\* failure is injected, returns an empty ledger and no error and leaves the
\* cluster as it was; and a bootstrap run that returned no error leaves every
\* bootstrap resource in the cluster, so the next run is such a run.
C6_BootstrapIdempotent ==
    (pc = "init" /\ ApplyReturned) =>
        /\ (~faulted /\ BootstrapPresent(clusterAtStart)) =>
              /\ am.created = <<>>
              /\ am.err = NoErr
              /\ cluster = clusterAtStart
        /\ am.err = NoErr => BootstrapPresent(cluster)

C6_Witness ==
    /\ pc = "init"
    /\ ApplyReturned
    /\ calls = 2
    /\ ~faulted
    /\ BootstrapPresent(clusterAtStart)
    /\ Len(am.calls) = MaxInitDocs

\* C7: applyManifests run with ignoreExists and with its negation on the
\* same documents and the same cluster answers issues the same create calls
\* and has the same ledger and the same error; an "already exists" answer
\* sets no error and adds nothing to the ledger.
C7_IgnoreExistsEquivalent ==
    (pc \in {"init", "vm"}) =>
        /\ twin.calls = am.calls
        /\ twin.created = am.created
        /\ twin.err = am.err
        /\ \A i \in DOMAIN am.calls :
              am.calls[i].resp = "already exists" =>
                  /\ am.calls[i].res \notin Range(am.created)
                  /\ (i = Len(am.calls) =>
                          am.err # "failed to create resource")

C7_Witness ==
    /\ pc = "vm"
    /\ ApplyReturned
    /\ am.err = NoErr
    /\ Len(am.calls) = MaxVMDocs
    /\ am.calls[1].resp = "already exists"
    /\ am.calls[2].resp = "created"

\* C8: the ledger of applyManifests is the resources of its create calls
\* that succeeded, in call order, each once; a create call answered with an
\* error other than "already exists" is the last call it issues, and it
\* returns that error with the ledger built so far, which CreateUserVM
\* receives.
C8_LedgerIsCreated ==
    /\ (pc \in {"init", "vm"}) =>
          /\ am.created = ResOf(SelectSeq(am.calls, WasCreated))
          /\ \A i, j \in DOMAIN am.created :
                am.created[i] = am.created[j] => i = j
          /\ \A i \in DOMAIN am.calls :
                am.calls[i].resp = "error" =>
                    /\ i = Len(am.calls)
                    /\ am.err = "failed to create resource"
    /\ (pc \in {"rollback", "done"} /\ InitFailed) => initCreated = am.created
    /\ (pc \in {"rollback", "done"} /\ VMFailed) => vmCreated = am.created

C8_Witness ==
    /\ pc = "vm"
    /\ ApplyReturned
    /\ am.err = "failed to create resource"
    /\ Len(am.created) = 1
    /\ Len(am.calls) = 2
    /\ Len(vmDocs) > 2
    /\ vmDocs[3] = "ok"

(* ---------------------------------------------------------------------- *)
(* Properties of StopVM                                                    *)
(* ---------------------------------------------------------------------- *)
TimedOut == lErr.cause = "timeout waiting for VM status"
WaitStarted == desiredStatus = "Stopped"
FinalWriteFailed == lErr.wrap = "failed to update VM status to Stopped"

PolledRunning == \E s \in seen : ToLower(s) = "running"

\* C11: StartVM writes the persisted status at most once, and only to
\* Running after a poll read Running; while it waits nothing has been
\* written; when it returns an error (the timeout, a failed patch, a failed
\* fetch or a failed write) the persisted record is exactly the one it was
\* called with.
C11_StartFrame ==
    /\ Len(statusWrites) <= 1
    /\ \A i \in DOMAIN statusWrites : statusWrites[i] = VmStatusRunning
    /\ statusWrites # <<>> => PolledRunning
    /\ lpc \in {"start", "wait", "persist"} =>
          /\ statusWrites = <<>>
          /\ vmRec = vmArg
    /\ (lpc = "done" /\ lErr # NoError) =>
          /\ statusWrites = <<>>
          /\ vmRec = vmArg
    /\ (lpc = "done" /\ lErr = NoError) =>
          /\ statusWrites = <<VmStatusRunning>>
          /\ vmRec = [vmArg EXCEPT !.Status = VmStatusRunning]

C11_Witness ==
    /\ lpc = "done"
    /\ desiredStatus = "Running"
    /\ TimedOut
    /\ polls >= 2
    /\ vmArg.Status = VmStatusStopped
    /\ vmRec = vmArg

\* a poll whose Get was answered with an object without status.printableStatus
AbsentPoll ==
    /\ lpc = "wait"
    /\ polls' = polls + 1
    /\ getFailed' = getFailed
    /\ vmObj.printableStatus = Absent

\* C12: in waitForVMStatus a poll that finds no status.printableStatus
\* neither ends the wait nor produces an error: the wait goes on and polls
\* again only at the next tick; a wait all of whose polls found no status
\* ends only through the timeout, once the 60 seconds have elapsed.
C12_AbsentIsNotYet ==
    /\ [][AbsentPoll =>
             /\ lpc' = "wait"
             /\ lErr' = lErr
             /\ ~tickPending']_vars
    /\ []((lpc = "done" /\ polls > 0 /\ seen = {Absent} /\ ~getFailed) =>
             /\ TimedOut
             /\ now * TickSeconds >= TimeoutSeconds)

C12_Witness ==
    /\ lpc = "done"
    /\ desiredStatus = "Stopped"
    /\ seen = {Absent}
    /\ polls >= 2
    /\ TimedOut

(* ---------------------------------------------------------------------- *)
(* Properties of DeleteVM                                                  *)
(* ---------------------------------------------------------------------- *)
\* the k-th deleteResource call was made and failed
DeletionFailed(k) == k \in DOMAIN delAttempts /\ ~delAttempts[k].ok

\* C13: for every k in 1..6, if the k-th cluster deletion of DeleteVM
\* fails, no later deletion is attempted, DeleteVM has returned that
\* deletion's error, and the record is soft-deleted.
C13_FirstFailureAborts ==
    \A k \in 1..6 :
        DeletionFailed(k) =>
            /\ Len(delAttempts) = k
            /\ dpc = "done"
            /\ dErr = Error(NoErr, "delete " \o delAttempts[k].res)
            /\ vmRec.IsDeleted

C13_Witness ==
    /\ DeletionFailed(3)
    /\ delAttempts[3].res = "VirtualMachine/<name>"
    /\ dpc = "done"
    /\ vmRec.IsDeleted
    /\ vmResources = {"VirtualMachine/<name>",
                      "Secret/<name>-cloud-init-userdata",
                      "DataVolume/<name>-disk", "Service/vps-web-<name>"}

\* C14: DeleteVM has marked the record soft-deleted before it issues any
\* cluster deletion, and issues the deletions in the order access service,
\* ingress, VM object, access-credential secret, data volume, web service,
\* each only after the one before it succeeded.
C14_DeleteOrder ==
    /\ Len(delAttempts) <= 6
    /\ delAttempts # <<>> => vmRec.IsDeleted
    /\ \A k \in DOMAIN delAttempts :
          /\ delAttempts[k].res =
                CASE k = 1 -> "Service/vps-access-<name>"
                  [] k = 2 -> "Ingress/vm-ingress-<name>"
                  [] k = 3 -> "VirtualMachine/<name>"
                  [] k = 4 -> "Secret/<name>-cloud-init-userdata"
                  [] k = 5 -> "DataVolume/<name>-disk"
                  [] OTHER -> "Service/vps-web-<name>"
          /\ \A j \in 1..(k - 1) : delAttempts[j].ok

C14_Witness ==
    /\ dpc = "done"
    /\ dErr = NoError
    /\ Len(delAttempts) = 6
    /\ vmResources = {}
    /\ vmRec.IsDeleted

\* C15: DeleteVM soft-deletes the record whatever its status, and from
\* then on the record never changes: no step of a StopVM or StartVM that
\* runs later or beside it changes the persisted status, and the flag is
\* never cleared.
C15_DeletedIsTerminal ==
    /\ [][vmRec.IsDeleted => vmRec' = vmRec]_vars
    /\ [][(dpc = "idle" /\ dpc' = "delete") =>
             vmRec' = [vmRec EXCEPT !.IsDeleted = TRUE]]_vars
    /\ [](vmRec \in [Status : EnumVmStatus, IsDeleted : BOOLEAN])

C15_Witness ==
    /\ vmRec.IsDeleted
    /\ vmRec.Status = VmStatusStopping
    /\ vmArg.Status = VmStatusFailed
    /\ lpc = "done"
    /\ lErr = NoError
    /\ statusWrites = <<VmStatusStopping, VmStatusStopped>>

(* ---------------------------------------------------------------------- *)
(* Properties of the lifecycle handlers                                    *)
(* ---------------------------------------------------------------------- *)
\* the operation the handler started has returned
OperationReturned == lpc = "done" \/ dpc = "done"

\* C16: a lifecycle handler that starts its operation answers without
\* waiting for it (the response can be written at every position of the
\* operation), with the record as it was fetched before the operation
\* started; the response never changes afterwards; the operation never
\* goes back to a position before its patch once the patch was applied,
\* never deletes after it returned, and once it has returned nothing of
\* it runs again.
C16_FireAndForget ==
    /\ [](hpc = "dispatched" => ENABLED HandlerRespond)
    /\ [][(hpc = "ready" /\ hpc' = "dispatched") => vmArg' = vmRec]_vars
    /\ [](response.code = 200 => response.vm = vmArg)
    /\ [][hpc = "responded" => response' = response]_vars
    /\ [][patchIssued => lpc' \notin {"none", "idle", "start", "patch"}]_vars
    /\ [][OperationReturned =>
             /\ lpc' = lpc
             /\ dpc' = dpc
             /\ vmRec' = vmRec
             /\ vmObj'.running = vmObj.running
             /\ delAttempts' = delAttempts]_vars

C16_Witness ==
    /\ hpc = "responded"
    /\ response.code = 200
    /\ response.vm.Status = VmStatusRunning
    /\ request.op = "stop"
    /\ lpc = "wait"
    /\ polls >= 1
    /\ vmRec.Status = VmStatusStopping

(* ---------------------------------------------------------------------- *)
(* Properties of GetK8sService                                             *)
(* ---------------------------------------------------------------------- *)
\* C17: over all calls of GetK8sService, made one after another or at the
\* same time, the construction body starts at most once; all calls that
\* return a service return the same instance; once a construction has
\* failed (the Once is done and there is no instance) no call starts the
\* body again and the instance stays unset.
C17_ConstructedOnce ==
    /\ [](constructions <= 1)
    /\ [](\A i, j \in DOMAIN gLog :
             (gLog[i].svc # Nil /\ gLog[j].svc # Nil) =>
                 gLog[i].svc = gLog[j].svc)
    /\ [](\A i \in DOMAIN gLog : gLog[i].svc # Nil => gLog[i].svc = instance)
    /\ [][once = "done" =>
             /\ once' = "done"
             /\ constructions' = constructions
             /\ instance' = instance]_vars

C17_Witness ==
    /\ Len(gLog) >= 2
    /\ gLog[1].err = "failed to create dynamic client"
    /\ gLog[2].caller # gLog[1].caller
    /\ gLog[2].svc = Nil
    /\ constructions = 1
    /\ instance = Nil
    /\ \A c \in Callers : gCalls[c] = MaxGetCalls /\ gpc[c] = "idle"

(* ---------------------------------------------------------------------- *)
(* Properties of the port allocator                                        *)
(* ---------------------------------------------------------------------- *)
\* GetAvailablePort returns to caller a in this step
ScanStep(a) == apc[a] = "idle" /\ apc'[a] = "scanned"

\* the ports of the range that no active row of the table holds
FreePorts(table) ==
    (30003..30300) \ {r.NodePort : r \in {x \in table : x.IsDeleted = FALSE}}

\* C18: GetAvailablePort changes no row; when its query is answered it
\* returns the exhaustion error exactly when every port of [30003,30300]
\* is held by an active row, and otherwise the smallest port of the range
\* that no active row holds (rows that are soft-deleted or hold a port
\* outside the range do not count).
C18_LowestFreePort ==
    [][\A a \in AllocCallers :
          ScanStep(a) =>
              /\ vms' = vms
              /\ aRet'[a].err # "db" =>
                    LET free == FreePorts(vms)
                    IN  /\ aRet'[a].err = ErrNoPorts <=> free = {}
                        /\ free = {} => aRet'[a].port = 0
                        /\ free # {} =>
                              /\ aRet'[a].err = NoErr
                              /\ aRet'[a].port \in free
                              /\ \A q \in free : aRet'[a].port <= q]_vars

C18_Witness ==
    /\ vms = ExampleTable
    /\ apc[1] = "scanned"
    /\ aRet[1] = PortResult(30005, NoErr)

\* C19: an answered IsPortAvailable(port) returns true exactly when no
\* active row holds that port; rows that are soft-deleted do not count.
C19_PortAvailable ==
    [][probe' # probe =>
          /\ probe'.err = NoErr =>
                (probe'.avail <=>
                    ~(\E r \in vms :
                         r.NodePort = probe'.port /\ r.IsDeleted = FALSE))
          /\ probe'.err # NoErr => ~probe'.avail]_vars

C19_Witness ==
    /\ probe = ProbeResult(30005, TRUE, NoErr)
    /\ Row(104, 30005, TRUE) \in vms
    /\ Row(1, 30005, FALSE) \notin vms

\* the call of caller a has returned and its query was answered
Scanned(a) == apc[a] # "idle" /\ aRet[a].err # "db"

\* C20: two GetAvailablePort calls between which no row was written return
\* the same result, whether or not the first caller has gone on towards
\* creating its record: the scan books nothing.
C20_SamePortTwice ==
    \A a, b \in AllocCallers :
        (Scanned(a) /\ Scanned(b) /\ scanAt[a] = scanAt[b]) =>
            aRet[a] = aRet[b]

C20_Witness ==
    /\ apc[1] = "created"
    /\ apc[2] = "created"
    /\ scanAt[1] = 0
    /\ scanAt[2] = 0
    /\ {Row(1, 30003, FALSE), Row(2, 30003, FALSE)} \subseteq vms

\* the active rows of the table
ActiveRows(table) == {r \in table : r.IsDeleted = FALSE}

\* C21: in every state of the record store no two active rows hold the same
\* port and every active row's port lies in 30003..30300, whatever the
\* interleaving of GetAvailablePort, record creation and DeleteVm.
C21_PortsUniqueInBand ==
    /\ \A r, q \in ActiveRows(vms) : r.NodePort = q.NodePort => r = q
    /\ \A r \in ActiveRows(vms) :
          AllocMinPort <= r.NodePort /\ r.NodePort <= AllocMaxPort

\* C22: a record is created with status Provisioning, and whatever requests
\* to StopVM, StartVM and DeleteVM follow its creation, its persisted status
\* is one of the six values of EnumVmStatus.
C22_StatusInEnum ==
    /\ [][(vmRec = Nil /\ vmRec' # Nil) =>
             vmRec'.Status = VmStatusProvisioning]_vars
    /\ [](vmRec # Nil => vmRec.Status \in EnumVmStatus)

C22_Witness ==
    /\ vmRec = [Status |-> VmStatusRunning, IsDeleted |-> TRUE]
    /\ request.op = "delete"
    /\ dpc = "done"

\* the call has returned and every argument but f is the valid one
OthersValid(f) ==
    /\ injDone
    /\ \A g \in Fields \ {f} : injArgs[g] = ValidParams[g]

PassesPortCheck(port) ==
    checkInjection(ValidParams.Namespace, ValidParams.Name,
                   ValidParams.Password, ValidParams.DNSHost,
                   ValidParams.ManifestDir, port) = NoErr

\* C24: every port GetAvailablePort returns lies in 30003..30300, a range
\* strictly inside the one checkInjection accepts, so a port obtained from
\* the allocator never fails the port check of checkInjection.
C24_AllocatorPortAccepted ==
    /\ \A port \in 30003..30300 : 30003 <= port /\ port < 32767
    /\ 30300 < 32767 - 1
    /\ \A a \in AllocCallers :
          (apc[a] # "idle" /\ aRet[a].err = NoErr) =>
              /\ aRet[a].port \in 30003..30300
              /\ PassesPortCheck(aRet[a].port)

C24_Witness ==
    /\ vms = FullButLastTable
    /\ apc[1] = "scanned"
    /\ aRet[1] = PortResult(30300, NoErr)
    /\ PassesPortCheck(30300)

\* the characters the claim lets a secret consist of
SecretChars == LowerChars \cup UpperChars \cup DigitChars \cup PunctChars

LabelGrammar(s) ==
    /\ s # <<>>
    /\ \A i \in 1..Len(s) : s[i] \in LowerChars \cup DigitChars \cup {"-"}
    /\ s[1] # "-"
    /\ s[Len(s)] # "-"

\* C26: checkInjection accepts a namespace, and a vm name, exactly when it
\* is not empty, consists of lowercase letters, digits and hyphens, and
\* starts and ends with a letter or digit: "my-ns" is accepted, "My-NS",
\* "-abc" and names ending in a hyphen are refused.
C26_LabelGrammar ==
    /\ OthersValid("Namespace") =>
          (injErr = NoErr <=> LabelGrammar(injArgs.Namespace))
    /\ OthersValid("Name") =>
          (injErr = NoErr <=> LabelGrammar(injArgs.Name))

C26_Witness ==
    /\ OthersValid("Namespace")
    /\ injArgs.Namespace = <<"a", "b", "c", "-">>
    /\ injErr = "invalid namespace format"

\* the checks in the order of the claim: whether each one refuses the
\* arguments, and the error each one returns
CheckRefuses(a) ==
    << \/ a.Namespace = <<>> \/ a.Name = <<>> \/ a.Password = <<>>
       \/ a.DNSHost = <<>> \/ a.ManifestDir = <<>> \/ a.Port = 0,
       ~(30003 <= a.Port /\ a.Port < 32767),
       ~LabelGrammar(a.Namespace),
       ~LabelGrammar(a.Name),
       ~(8 <= Len(a.Password) /\ Len(a.Password) <= 16),
       \E i \in 1..Len(a.Password) : a.Password[i] \notin SecretChars,
       \/ a.DNSHost = <<>>
       \/ \E i \in 1..Len(a.DNSHost) :
             a.DNSHost[i] \notin
                 LowerChars \cup UpperChars \cup DigitChars \cup {".", "-"},
       LET cleanDir == Clean(a.ManifestDir)
       IN  \/ Contains(cleanDir, <<".", ".">>)
           \/ cleanDir[1] \in {"/", "\\"} >>
CheckErrors ==
    << "invalid parameters: empty values not allowed", "invalid port",
       "invalid namespace format", "invalid vmName format",
       "invalid password: length", "invalid password format",
       "invalid dnsHost format", "invalid manifest directory" >>

\* C27: checkInjection returns the error of the first check that refuses
\* the arguments, in the order emptiness, port range, namespace, vm name,
\* secret length, secret characters, host characters, manifest directory,
\* and nil when none does; the errors of the checks differ from each other;
\* the call changes nothing but its own result.
C27_FirstFailureOnly ==
    /\ [](injDone =>
            LET refuses == CheckRefuses(injArgs)
                failing == {k \in 1..8 : refuses[k]}
            IN  IF failing = {} THEN injErr = NoErr
                ELSE \E k \in failing :
                        /\ \A j \in failing : k <= j
                        /\ injErr = CheckErrors[k])
    /\ [](\A j, k \in 1..8 :
            /\ CheckErrors[k] # NoErr
            /\ j # k => CheckErrors[j] # CheckErrors[k])
    /\ [][injDone' # injDone =>
             UNCHANGED <<pvars, lvars, dvars, hvars, cvars, ovars, avars,
                         injArgs>>]_vars

C27_Witness ==
    /\ injDone
    /\ injArgs.Password = <<"P", "a", " ", "s", "s", "0", "r">>
    /\ injArgs.ManifestDir = <<".", ".", "/", "x">>
    /\ injErr = "invalid password: length"

\* the cleaned path has a segment that is the parent directory, and the
\* cleaned path is absolute
HasParentSegment(path) ==
    LET segs == SplitSlash(path, 1, <<>>)
    IN  \E i \in 1..Len(segs) : segs[i] = <<".", ".">>
IsAbs(path) == HasPrefix(path, <<"/">>)

\* C28: checkInjection refuses a manifest directory exactly when its cleaned
\* form has a parent-directory segment or is absolute; a relative path
\* without such a segment is accepted, also when a segment name merely
\* contains two consecutive dots.
C28_ManifestDirRule ==
    (OthersValid("ManifestDir") /\ injArgs.ManifestDir # <<>>) =>
        LET cleanDir == Clean(injArgs.ManifestDir)
        IN  injErr # NoErr <=> (HasParentSegment(cleanDir) \/ IsAbs(cleanDir))

\* C30: when the kind of a decoded document has no mapping, applyManifests
\* issues no create call for it or for a later document and returns the
\* mapping error with the ledger of what it created before; CreateUserVM
\* then starts the rollback it starts after a create error.
C30_UnmappedKindStops ==
    /\ []((pc \in {"init", "vm"} /\ idx >= 1) =>
            \A k \in 1..(idx - 1) :
                DocsOf(pc)[k] = "nomap" =>
                    /\ am.err = "failed to find mapping"
                    /\ \A i \in 1..Len(am.calls) : am.calls[i].res[2] < k
                    /\ LET done == SelectSeq(am.calls, WasCreated)
                       IN  am.created = [i \in 1..Len(done) |-> done[i].res])
    /\ [][(/\ pc \in {"init", "vm"}
           /\ pc' \notin {"init", "vm"}
           /\ am.err \in {"failed to find mapping",
                          "failed to create resource"}) =>
             /\ retErr'.cause = am.err
             /\ vmInfo' = Nil
             /\ ~success'
             /\ allCreatedResources' = allCreatedResources
             /\ rollbackIdx' = Len(allCreatedResources)
             /\ pc' = IF allCreatedResources = <<>> THEN "done"
                      ELSE "rollback"]_vars

C30_Witness ==
    /\ pc = "done"
    /\ am.err = "failed to find mapping"
    /\ retErr = Error("failed to apply client-vm manifests",
                      "failed to find mapping")
    /\ am.created # <<>>
    /\ deleteLog # <<>>

\* the text with every occurrence of every key of the map replaced by the
\* key's value, all in one pass from the left
RECURSIVE Substituted(_, _)
Substituted(s, map) ==
    IF s = <<>> THEN <<>>
    ELSE IF \E k \in DOMAIN map : HasPrefix(s, k)
    THEN LET k == CHOOSE key \in DOMAIN map : HasPrefix(s, key)
         IN  map[k] \o Substituted(SubSeq(s, Len(k) + 1, Len(s)), map)
    ELSE <<s[1]>> \o Substituted(Tail(s), map)

\* the range loop over the map has ended
ReplacementsDone == mpc \in {"docs", "done"} /\ mErr.msg # "failed to read file"

\* C29: applyManifests replaces every occurrence of every token of its map
\* in the file by the token's replacement string, splits the result on the
\* separator line, issues no create for a block that is blank once trimmed,
\* and on a block that does not decode stops with an error naming the file.
C29_TemplatePipeline ==
    ReplacementsDone =>
        /\ text = Substituted(content, replacements)
        /\ docs = Split(text, Separator, <<>>)
        /\ \A i \in 1..Len(applied) : TrimSpace(docs[applied[i]]) # <<>>
        /\ \A j \in 1..Len(docs) :
              (j < docAt /\ TrimSpace(docs[j]) # <<>>) => Decodes(docs[j])
        /\ (/\ docAt <= Len(docs)
            /\ TrimSpace(docs[docAt]) # <<>>
            /\ ~Decodes(docs[docAt])
            /\ mpc = "done") =>
                 /\ mErr = FileError("failed to decode yaml in", fileName)
                 /\ \A i \in 1..Len(applied) : applied[i] < docAt

\* C31: the rollback of a failed CreateUserVM call issues deletes only for
\* resources this call created; a resource that was there before and was
\* passed over on an "already exists" answer is never deleted by it.
C31_RollbackOnlyOwn ==
    \A i \in DOMAIN deleteLog :
        /\ deleteLog[i].res \in Range(callCreated)
        /\ deleteLog[i].res \notin Range(callSkipped)

C31_Witness ==
    /\ pc = "done"
    /\ calls = 2
    /\ deleteLog # <<>>
    /\ callSkipped # <<>>
    /\ Range(callSkipped) \subseteq cluster

\* C34: every call of GetK8sService returns a service that is not nil or an
\* error that is not nil, also the calls made after the first construction
\* failed.
C34_ServiceOrError ==
    \A i \in DOMAIN gLog : gLog[i].svc # Nil \/ gLog[i].err # NoErr

\* C35: when the Get of a status poll fails, waitForVMStatus ends with that
\* poll and returns an error without waiting for the timeout, and StopVM or
\* StartVM returns the error and writes no further status: after StopVM the
\* record is Stopping, after StartVM it is as it was.
C35_GetFailureEndsWait ==
    /\ [][(getFailed' /\ ~getFailed) =>
             /\ lpc = "wait"
             /\ lpc' = "done"
             /\ lErr' = Error(WaitWrap(desiredStatus),
                              "failed to get VM status")
             /\ vmRec' = vmRec
             /\ statusWrites' = statusWrites]_vars
    /\ []((lpc = "done" /\ getFailed) =>
            /\ lErr.cause = "failed to get VM status"
            /\ request.op = "stop" =>
                  /\ statusWrites = <<VmStatusStopping>>
                  /\ vmRec.Status = VmStatusStopping
            /\ request.op = "start" =>
                  /\ statusWrites = <<>>
                  /\ vmRec = vmArg)

C35_Witness ==
    /\ lpc = "done"
    /\ getFailed
    /\ request.op = "stop"
    /\ polls = 2
    /\ now < TimeoutTicks
    /\ ~timeoutReady
    /\ vmRec.Status = VmStatusStopping

\* the patch call of StopVM or StartVM has failed
PatchFailed == lErr = Error("failed to patch VM running state", "api")

\* C37: when the patch call fails, StopVM returns the error without a poll
\* and the record stays Stopping (Stopped is never written); StartVM returns
\* the error without a poll and without any status write.
C37_PatchFailureReturns ==
    /\ [][(PatchFailed' /\ ~PatchFailed) =>
             /\ lpc \in {"patch", "start"}
             /\ lpc' = "done"
             /\ vmRec' = vmRec
             /\ vmObj' = vmObj]_vars
    /\ [](PatchFailed =>
            /\ lpc = "done"
            /\ polls = 0
            /\ desiredStatus = ""
            /\ request.op = "stop" =>
                  /\ statusWrites = <<VmStatusStopping>>
                  /\ vmRec.Status = VmStatusStopping
            /\ request.op = "start" =>
                  /\ statusWrites = <<>>
                  /\ vmRec = vmArg)

C37_Witness ==
    /\ PatchFailed
    /\ request.op = "start"
    /\ patchIssued
    /\ vmRec.Status = VmStatusStopped
    /\ hpc = "responded"

\* marking the record soft-deleted has failed
SoftDeleteFailed == dErr = Error(NoErr, "db")

\* C38: when marking the record soft-deleted fails, DeleteVM returns that
\* error and issues no deletion of a cluster object at all.
C38_SoftDeleteFailureStops ==
    SoftDeleteFailed =>
        /\ dpc = "done"
        /\ delAttempts = <<>>
        /\ vmResources = {DeleteOrder[i] : i \in DOMAIN DeleteOrder}
        /\ ~vmRec.IsDeleted

C38_Witness ==
    /\ SoftDeleteFailed
    /\ dpc = "done"
    /\ lpc = "done"
    /\ vmRec.Status = VmStatusStopped

\* the orders in which a range loop can visit the keys
Orders(keys) ==
    {o \in [1..Cardinality(keys) -> keys] :
        \A i, j \in 1..Cardinality(keys) : o[i] = o[j] => i = j}

\* the text after the range loop visited the keys in order o, from key i on
RECURSIVE ApplyInOrder(_, _, _, _)
ApplyInOrder(s, map, o, i) ==
    IF i > Len(o) THEN s
    ELSE ApplyInOrder(ReplaceAll(s, o[i], map[o[i]]), map, o, i + 1)

\* the number of occurrences of sub in s, counted from the left without
\* overlap
RECURSIVE Occurrences(_, _)
Occurrences(s, sub) ==
    IF Len(s) < Len(sub) THEN 0
    ELSE IF SubSeq(s, 1, Len(sub)) = sub
    THEN 1 + Occurrences(SubSeq(s, Len(sub) + 1, Len(s)), sub)
    ELSE Occurrences(Tail(s), sub)

\* C39: for parameters checkInjection accepts, the text the VM-phase
\* substitution produces depends on the file and the parameters only: every
\* order of visiting the tokens gives the text that was produced, and when a
\* token is visited the text holds no occurrence of it that a replacement
\* value brought in (a secret that spells a token is not substituted again).
C39_SubstitutionDeterminate ==
    /\ []((ReplacementsDone /\ DOMAIN replacements = Tokens) =>
            \A o \in Orders(Tokens) :
                text = ApplyInOrder(content, replacements, o, 1))
    /\ [][(mpc = "replace" /\ pending' # pending
              /\ DOMAIN replacements = Tokens) =>
             \A k \in pending \ pending' :
                 Occurrences(text, k) <= Occurrences(content, k)]_vars

\* the handler has answered without starting an operation
Refused == hpc = "responded" /\ response.code # 200

\* C40: the StopVM, StartVM and DeleteVM handlers start their operation only
\* when an active record of the name exists and the authenticated user owns
\* it; for a record of another user, and for a name without an active
\* record, no patch, no deletion and no status write is ever made.
C40_DispatchOnlyForOwner ==
    /\ [][(hpc = "ready" /\ hpc' = "dispatched") =>
             /\ ~vmRec.IsDeleted
             /\ request'.user = RecordOwner]_vars
    /\ [][(hpc = "ready" /\ hpc' # hpc
              /\ (vmRec.IsDeleted \/ request'.user # RecordOwner)) =>
             /\ hpc' = "responded"
             /\ response'.code # 200]_vars
    /\ [](Refused =>
            /\ lpc = "none"
            /\ dpc = "none"
            /\ ~patchIssued
            /\ statusWrites = <<>>
            /\ delAttempts = <<>>)
    /\ [][Refused =>
             /\ Refused'
             /\ vmRec' = vmRec
             /\ vmObj'.running = vmObj.running
             /\ vmResources' = vmResources]_vars

C40_Witness ==
    /\ Refused
    /\ response.code = 401
    /\ request = [op |-> "delete", user |-> "other"]
    /\ ~vmRec.IsDeleted
    /\ vmObj.printableStatus = "Stopped"

\* one step of the goroutine that runs StopVM or StartVM
OperationStep ==
    \/ \E dbOk \in BOOLEAN : StopVMPersistStopping(dbOk)
    \/ \E ok \in BOOLEAN : StopVMPatch(ok)
    \/ \E ok \in BOOLEAN : StartVMPatch(ok)
    \/ WaitTimeout
    \/ \E getOk \in BOOLEAN : WaitPoll(getOk)
    \/ \E dbOk \in BOOLEAN : StopVMPersistStopped(dbOk)
    \/ \E dbOk \in BOOLEAN : StartVMPersistRunning(dbOk)

\* the handlers with the scheduling of the Go runtime: a goroutine that can
\* take a step takes one in the end, and the clock of the ticker and of
\* time.After goes on
SpecReturns ==
    /\ InitHandlers
    /\ [][NextHandlers]_vars
    /\ WF_vars(OperationStep)
    /\ WF_vars(TimePasses)

\* C36: a wait is over when its 60 seconds are, it makes at most 12 polls,
\* one for each 5 second tick and none before the first tick, and StopVM and
\* StartVM, once started, return.
C36_WaitWithinBudget ==
    /\ [](lpc = "wait" => now * TickSeconds <= TimeoutSeconds)
    /\ [](polls <= TimeoutSeconds \div TickSeconds)
    /\ [](polls <= now)
    /\ [][polls' > polls => (polls' = polls + 1 /\ now >= 1)]_vars
    /\ (lpc \in {"idle", "start"}) ~> (lpc = "done")

(* ---------------------------------------------------------------------- *)
(* Two CreateUserVM calls for one namespace                                *)
(* ---------------------------------------------------------------------- *)
\* what the steps of the other call leave alone
besidePeer ==
    <<initDocs, vmDocs, pc, calls, params, success, allCreatedResources,
      initCreated, vmCreated, vmInfo, retErr, rollbackIdx, idx, am,
      callCreated, callSkipped, deleteLog, clusterAtStart, faulted, twin,
      lvars, dvars, hvars, ovars, avars, fvars, rival>>

\* the other call is made: its arguments pass checkInjection, its
\* bootstrap phase starts on the same client-init directory
PeerCreateUserVM ==
    /\ peer.pc = "none"
    /\ peer' = [pc |-> "init", idx |-> 1, am |-> EmptyRun]
    /\ UNCHANGED <<cluster, besidePeer>>

\* applyManifests(initDir, ..., true) of the other call: the next document
PeerApplyNextDoc(fault) ==
    /\ peer.pc = "init"
    /\ peer.idx <= Len(initDocs)
    /\ peer.am.err = NoErr
    /\ LET res  == Res("client-init", peer.idx)
           resp == CreateResponse(res, cluster, fault)
           next == ApplyDoc(peer.am, initDocs[peer.idx], res, resp, TRUE)
       IN  /\ peer' = [peer EXCEPT !.am = next, !.idx = @ + 1]
           /\ cluster' = IF Len(next.calls) > Len(peer.am.calls)
                            /\ resp = "created"
                         THEN cluster \cup {res} ELSE cluster
    /\ UNCHANGED besidePeer

\* the other call after its bootstrap phase returned: an error returns
\* before anything was appended to allCreatedResources
PeerAfterInit ==
    /\ peer.pc = "init"
    /\ peer.am.err # NoErr \/ peer.idx > Len(initDocs)
    /\ peer' = [peer EXCEPT !.pc = IF peer.am.err # NoErr THEN "done"
                                   ELSE "vm"]
    /\ UNCHANGED <<cluster, besidePeer>>

\* the other call after its VM phase, which works on objects named after
\* its own VM, returned: on an error the deferred rollback starts on the
\* bootstrap ledger
PeerAfterVM(failed) ==
    /\ peer.pc = "vm"
    /\ peer' = [peer EXCEPT
                  !.pc = IF failed /\ Len(peer.am.created) > 0
                         THEN "rollback" ELSE "done",
                  !.idx = IF failed THEN Len(peer.am.created) ELSE 0]
    /\ UNCHANGED <<cluster, besidePeer>>

\* one iteration of the deferred rollback loop of the other call
PeerRollback(fault) ==
    /\ peer.pc = "rollback"
    /\ peer.idx >= 1
    /\ LET res == peer.am.created[peer.idx]
           out == DeleteResponse(res, cluster, fault)
       IN  /\ cluster' = IF out = "deleted" THEN cluster \ {res} ELSE cluster
           /\ peer' = [peer EXCEPT
                         !.idx = RollbackNext(peer.idx, out),
                         !.pc = IF RollbackNext(peer.idx, out) = 0
                                THEN "done" ELSE "rollback"]
    /\ UNCHANGED besidePeer

\* well-formed manifest directories and an empty namespace
InitPeers ==
    /\ Init
    /\ initDocs = [i \in 1..MaxInitDocs |-> "ok"]
    /\ vmDocs = [i \in 1..MaxVMDocs |-> "ok"]

NextPeers ==
    \/ \E p \in ParamCases : CreateUserVM(p)
    \/ \E ok \in BOOLEAN : ApplyReadDir(ok)
    \/ \E fault \in BOOLEAN : ApplyNextDoc(fault)
    \/ AfterInit
    \/ AfterVM
    \/ \E fault \in BOOLEAN : Rollback(fault)
    \/ PeerCreateUserVM
    \/ \E fault \in BOOLEAN : PeerApplyNextDoc(fault)
    \/ PeerAfterInit
    \/ \E failed \in BOOLEAN : PeerAfterVM(failed)
    \/ \E fault \in BOOLEAN : PeerRollback(fault)

SpecPeers == InitPeers /\ [][NextPeers]_vars

\* C32: at the step at which a CreateUserVM call returns success, every
\* resource of its bootstrap and VM manifests is in the cluster, also when
\* another call for the namespace runs beside it.
C32_SuccessMeansPresent ==
    [][(success' /\ ~success) => AllResources \subseteq cluster']_vars

(* ---------------------------------------------------------------------- *)
(* StopVM and StartVM of one VM, each in its own goroutine                 *)
(* ---------------------------------------------------------------------- *)
\* what the steps of the other goroutine leave alone beside the record and
\* the cluster object
besideRival ==
    <<pvars, dvars, hvars, ovars, avars, fvars, peer, lpc, lErr,
      desiredStatus, now, tickPending, timeoutReady, statusWrites,
      patchIssued, polls, observed, getFailed, vmArg, seen>>

\* the StartVM handler: "go ... StartVM(vm)"
RivalDispatch ==
    /\ rival.pc = "none"
    /\ rival' = [rival EXCEPT !.pc = "start"]
    /\ UNCHANGED <<vmRec, vmObj, besideRival>>

\* StartVM step 1 in the other goroutine: the merge patch, then its wait
RivalStartVMPatch(ok) ==
    /\ rival.pc = "start"
    /\ IF ok
       THEN /\ vmObj' = [vmObj EXCEPT !.running = TRUE]
            /\ rival' = [rival EXCEPT !.pc = "wait", !.now = 0,
                                      !.tickPending = FALSE]
       ELSE /\ rival' = [rival EXCEPT
                           !.pc = AfterError("start"),
                           !.err = Error("failed to patch VM running state",
                                         "api")]
            /\ UNCHANGED vmObj
    /\ UNCHANGED <<vmRec, besideRival>>

\* a period of the other wait's ticker elapses
RivalTimePasses ==
    /\ rival.pc = "wait"
    /\ rival.now < TimeoutTicks + MaxOverrun
    /\ rival' = [rival EXCEPT !.now = @ + 1, !.tickPending = TRUE]
    /\ UNCHANGED <<vmRec, vmObj, besideRival>>

\* the other wait, case <-timeout
RivalWaitTimeout ==
    /\ rival.pc = "wait"
    /\ rival.now >= TimeoutTicks
    /\ rival' = [rival EXCEPT
                   !.pc = AfterError("start"),
                   !.err = Error(WaitWrap("Running"),
                                 "timeout waiting for VM status")]
    /\ UNCHANGED <<vmRec, vmObj, besideRival>>

\* the other wait, case <-ticker.C
RivalWaitPoll(getOk) ==
    /\ rival.pc = "wait"
    /\ rival.tickPending
    /\ LET out == PollOutcome(getOk, vmObj.printableStatus, "Running")
       IN  rival' = [rival EXCEPT
                       !.tickPending = FALSE,
                       !.pc = CASE out = "error" -> "done"
                                [] out = "match" -> "persist"
                                [] OTHER -> "wait",
                       !.err = IF out = "error"
                               THEN Error(WaitWrap("Running"),
                                          "failed to get VM status")
                               ELSE @]
    /\ UNCHANGED <<vmRec, vmObj, besideRival>>

\* StartVM step 3 in the other goroutine: UpdateVmStatus(vm.Name, Running)
RivalPersistRunning(dbOk) ==
    /\ rival.pc = "persist"
    /\ IF dbOk
       THEN /\ vmRec' = UpdateVmStatus(vmRec, StartVMFinalStatus)
            /\ rival' = [rival EXCEPT !.pc = "done"]
       ELSE /\ rival' = [rival EXCEPT
                           !.pc = "done",
                           !.err = Error("failed to update VM status to Running",
                                         "db")]
            /\ UNCHANGED vmRec
    /\ UNCHANGED <<vmObj, besideRival>>

\* the status the virtualization controller reports for spec.running
Reported(obj) == IF obj.running THEN "Running" ELSE "Stopped"

\* the virtualization controller brings the object to what spec.running asks
Reconcile ==
    /\ vmObj.printableStatus # Reported(vmObj)
    /\ vmObj' = [vmObj EXCEPT !.printableStatus = Reported(vmObj)]
    /\ UNCHANGED <<vmRec, rival, besideRival>>

\* a VM at rest, running or stopped, its record in step with the cluster;
\* StopVM has been dispatched with the record
InitRivals ==
    /\ initDocs = [i \in 1..MaxInitDocs |-> "ok"]
    /\ vmDocs = [i \in 1..MaxVMDocs |-> "ok"]
    /\ cluster = {}
    /\ ProvisionIdle
    /\ OnceIdle
    /\ AllocIdle
    /\ vmObj \in {[running |-> TRUE, printableStatus |-> "Running"],
                  [running |-> FALSE, printableStatus |-> "Stopped"]}
    /\ vmRec = [Status |-> vmObj.printableStatus, IsDeleted |-> FALSE]
    /\ LifecycleIdle
    /\ DeleteIdle

NextRivals ==
    \/ \E dbOk \in BOOLEAN : StopVMPersistStopping(dbOk)
    \/ \E ok \in BOOLEAN : StopVMPatch(ok)
    \/ TimePasses
    \/ WaitTimeout
    \/ \E getOk \in BOOLEAN : WaitPoll(getOk)
    \/ \E dbOk \in BOOLEAN : StopVMPersistStopped(dbOk)
    \/ RivalDispatch
    \/ \E ok \in BOOLEAN : RivalStartVMPatch(ok)
    \/ RivalTimePasses
    \/ RivalWaitTimeout
    \/ \E getOk \in BOOLEAN : RivalWaitPoll(getOk)
    \/ \E dbOk \in BOOLEAN : RivalPersistRunning(dbOk)
    \/ Reconcile

SpecRivals == InitRivals /\ [][NextRivals]_vars

\* both operations have returned nil and the controller has nothing left to do
BothCompleted ==
    /\ lpc = "done"
    /\ lErr = NoError
    /\ rival.pc = "done"
    /\ rival.err = NoError
    /\ vmObj.printableStatus = Reported(vmObj)

\* C33: when a StopVM and a StartVM of one VM ran beside each other and
\* both returned nil, the persisted status is the status the cluster ends
\* with.
C33_FinalStatusAgrees ==
    BothCompleted => vmRec.Status = vmObj.printableStatus

====
